---- MODULE Spec2Model ----
(***************************************************************************)
(* local-file-sync: the process lock (internal/app/lock.go), the dedup     *)
(* store (internal/state/state.go), the scanner                            *)
(* (internal/scanner/scanner.go) and the orchestrator                      *)
(* (cmd/local-file-sync/main.go, func run).                                *)
(*                                                                         *)
(* Two specifications share this module:                                   *)
(*   Spec      one local-file-sync process invoked repeatedly on one root, *)
(*             with the filesystem changing underneath it;                 *)
(*   SpecLock  several processes racing through acquireLockWith on one     *)
(*             lock path, one system call per step.                        *)
(*                                                                         *)
(* Time is counted in ticks.  Marker files are numbered in the order       *)
(* sort.Strings gives their paths; file names inside a folder are numbered *)
(* in the order of the byte-wise string comparison.                        *)
(***************************************************************************)
EXTENDS Integers, Sequences, FiniteSets, TLC

VARIABLES
    \* ---- the lock path (both specifications)
    lockFile,   \* the file at the lock path: [exists, mod, owner]
    now,        \* the wall clock
    \* ---- SpecLock: one acquireLockWith call per process
    lpc,        \* position of each process inside acquireLockWith
    owned,      \* the closure variable `owned` of each call
    opens,      \* number of os.OpenFile calls each process has made
    relCalls,   \* number of release() calls each process has made
    lock0,      \* the lock file as it was when the processes started
    \* ---- Spec: the scanned root and the state file
    cfg,        \* the Config of every invocation: [sink, noState, firestore]
    mexists,    \* marker -> whether the *.RDY file is on disk
    mtime,      \* marker -> modification time of the *.RDY file
    folder,     \* marker -> what sits at the sibling path: dir, missing, unlistable
    stateFile,  \* the document at cfg.StateFile: [exists, files, lastRun]
    \* ---- Spec: the invocation in progress (func run)
    pc,         \* position inside run
    runNo,      \* invocations started so far
    st,         \* the *state.Store of this run, or NoStore
    loadOk,     \* whether st.Load returned nil
    matches,    \* result of scanner.Scan
    idx,        \* loop index of the classification loop
    matchedFiles, \* the eligible matches, in scan order
    fsOn,       \* the Firestore client: "unset", "ok" or "nil" (init failed)
    task,       \* marker -> the folder task built for it: [pc, upl, rec]
    setCalled,  \* markers for which this run called st.Set
    out,        \* what this run wrote to cfg.Stdout, one element per write
    result,     \* how the last finished run ended: nil, error, panic
    saved,      \* whether st.Save of this run replaced the state file
    \* ---- Spec: history kept for the properties
    prev,       \* summary of the previous invocation, kept until the pool starts
    evStart,    \* the value of events when the current run started
    chgCommit,  \* markers changed on disk since their token was last committed
    seenMod,    \* marker -> the curMod read when this run classified it eligible, else 0
    events,     \* number of changes made to the markers so far
    \* ---- SpecPool: one RunParallel call
    ptasks,     \* len(tasks)
    pfails,     \* task -> whether the task returns a non-nil error
    preq,       \* the concurrency argument
    pcpu,       \* runtime.NumCPU()
    fpc,        \* position of the calling goroutine: start, check, send, closed, done
    feedIdx,    \* loop index i of the feeding loop
    wpc,        \* position of each worker: none, recv, check, run, report, cancel, exit
    wjob,       \* the job each worker holds
    cancelled,  \* ctx.Err() != nil
    errCh,      \* the buffered error channel: indexes of the tasks whose error it holds
    tstate,     \* task -> new, running, ok, fail, dropped
    ret,        \* [returned, err]: whether RunParallel returned, and which task's error
    parentDone, \* parentCtx.Err() != nil
    \* ---- SpecStore: one Store and the files at its path
    sPath,      \* whether s.Path is not ""
    store,      \* the Store: [nil, Data, LastRun, dirty]
    sfiles,     \* [path, tmp]: the content at s.Path and at s.Path + ".tmp"
    spc,        \* position in Save: idle, mkdir, marshal, open, write, rename, clear, crashed
    sbuf,       \* b, the bytes json.Marshal returned
    serr,       \* what the last Save returned: none, nil, err
    sbefore,    \* the content at s.Path when the current Save was called
    fresh,      \* the Store the last Load on a fresh Store filled
    lerr,       \* whether that Load returned an error
    sops,       \* number of Set and SetLastRun calls made
    lastOp,     \* the last call made on the store: [op, key, val]
    \* ---- SpecScan: one directory tree and the Scan calls on it
    tree,       \* path -> absent, file, dir, nolist, link
    sopts,      \* scanner.Options: [Recursive, FollowSymlinks]
    scanRes,    \* what the last Scan returned: [err, matches]
    scanPrev,   \* what the Scan before it returned
    scans,      \* number of Scan calls made
    scanRaws    \* the enumeration order each of them met

lockVars == <<lpc, owned, opens, relCalls, lock0>>

fsVars == <<cfg, mexists, mtime, folder, stateFile>>

runVars == <<pc, runNo, st, loadOk, matches, idx, matchedFiles, fsOn, task,
             setCalled, out, result, saved>>

histVars == <<prev, evStart, chgCommit, seenMod, events>>

poolVars == <<ptasks, pfails, preq, pcpu, fpc, feedIdx, wpc, wjob, cancelled, errCh,
              tstate, ret, parentDone>>

storeVars == <<sPath, store, sfiles, spc, sbuf, serr, sbefore, fresh, lerr, sops, lastOp>>

scanVars == <<tree, sopts, scanRes, scanPrev, scans, scanRaws>>

----------------------------------------------------------------------------
(* Bounds and program constants *)

\* 30*time.Minute, in ticks
Ttl == 1

\* number of competing processes in SpecLock
NumProcs == 3

\* ticks the clock may advance in one behaviour
MaxTicks == 2

\* release() calls followed per process
MaxRelease == 2

\* the clock at the start of every behaviour; late enough that a lock file
\* older than Ttl can already exist
T0 == Ttl + 1

LockProcs == 1..NumProcs

\* owner recorded for a lock file left behind by a process outside the model
Stranger == 0

----------------------------------------------------------------------------
(* The lock file and the system calls of acquireLockWith *)

NoFile == [exists |-> FALSE, mod |-> 0, owner |-> Stranger]

NewLockFile(t, p) == [exists |-> TRUE, mod |-> t, owner |-> p]

\* os.OpenFile(path, O_CREATE|O_EXCL|O_WRONLY): fails with ErrExist when the
\* path exists, creates the file otherwise.
OpenExclNoExcl(f, t, p) == [ok |-> TRUE, file |-> NewLockFile(t, p)]

OpenExcl(f, t, p) ==
    IF f.exists THEN [ok |-> FALSE, file |-> f]
                ELSE [ok |-> TRUE, file |-> NewLockFile(t, p)]

\* now().Sub(info.ModTime()) > ttl
IsStaleAtTtl(f, t) == t - f.mod >= Ttl

IsStale(f, t) == t - f.mod > Ttl

\* LockOpen: the first os.OpenFile.  On success the call owns the lock and
\* returns (release, true, nil); on ErrExist it goes on to os.Stat.
LockOpen(p) ==
    /\ lpc[p] = "call"
    /\ LET r == OpenExcl(lockFile, now, p) IN
        /\ lockFile' = r.file
        /\ opens' = [opens EXCEPT ![p] = @ + 1]
        /\ IF r.ok
              THEN /\ owned' = [owned EXCEPT ![p] = TRUE]
                   /\ lpc' = [lpc EXCEPT ![p] = "acquired"]
              ELSE /\ owned' = owned
                   /\ lpc' = [lpc EXCEPT ![p] = "stat"]
    /\ UNCHANGED <<now, relCalls, lock0, poolVars, storeVars, scanVars, fsVars, runVars, histVars>>

\* LockStat: os.Stat of the existing file.  A file that vanished meanwhile
\* or is not stale gives (release, false, nil); a stale one is reclaimed.
LockStat(p) ==
    /\ lpc[p] = "stat"
    /\ IF lockFile.exists /\ IsStale(lockFile, now)
          THEN lpc' = [lpc EXCEPT ![p] = "remove"]
          ELSE lpc' = [lpc EXCEPT ![p] = "busy"]
    /\ UNCHANGED <<lockFile, now, owned, opens, relCalls, lock0, poolVars, storeVars, scanVars>>
    /\ UNCHANGED <<fsVars, runVars, histVars>>

\* LockRemove: `_ = os.Remove(path)` of the file judged stale; whatever file
\* is at the path now is removed, and an error is ignored.
LockRemove(p) ==
    /\ lpc[p] = "remove"
    /\ lockFile' = NoFile
    /\ lpc' = [lpc EXCEPT ![p] = "retry"]
    /\ UNCHANGED <<now, owned, opens, relCalls, lock0, poolVars, storeVars, scanVars, fsVars, runVars, histVars>>

\* LockRetry: the second os.OpenFile, made once.
LockRetry(p) ==
    /\ lpc[p] = "retry"
    /\ LET r == OpenExcl(lockFile, now, p) IN
        /\ lockFile' = r.file
        /\ opens' = [opens EXCEPT ![p] = @ + 1]
        /\ IF r.ok
              THEN /\ owned' = [owned EXCEPT ![p] = TRUE]
                   /\ lpc' = [lpc EXCEPT ![p] = "acquired"]
              ELSE /\ owned' = owned
                   /\ lpc' = [lpc EXCEPT ![p] = "busy"]
    /\ UNCHANGED <<now, relCalls, lock0, poolVars, storeVars, scanVars, fsVars, runVars, histVars>>

\* the release closure: a no-op unless owned; otherwise os.Remove(path) of
\* whatever file is at the path, then owned = false.
ReleaseFileAlways(f, own) == NoFile

ReleaseFileKeep(f, own) == f

ReleaseFile(f, own) == IF own THEN NoFile ELSE f

LockRelease(p) ==
    /\ lpc[p] \in {"acquired", "busy"}
    /\ relCalls[p] < MaxRelease
    /\ lockFile' = ReleaseFile(lockFile, owned[p])
    /\ owned' = [owned EXCEPT ![p] = FALSE]
    /\ relCalls' = [relCalls EXCEPT ![p] = @ + 1]
    /\ UNCHANGED <<now, lpc, opens, lock0, poolVars, storeVars, scanVars, fsVars, runVars, histVars>>

\* the clock advances
LockTick ==
    /\ now < T0 + MaxTicks
    /\ now' = now + 1
    /\ UNCHANGED <<lockFile, lockVars, poolVars, storeVars, scanVars, fsVars, runVars, histVars>>

\* AcquireLock as one uninterrupted call: the three system calls above in
\* sequence, for a caller no other process interleaves with.
AcquireLock(f, t, p) ==
    LET r1 == OpenExcl(f, t, p) IN
    IF r1.ok THEN [acquired |-> TRUE, file |-> r1.file]
    ELSE IF f.exists /\ IsStale(f, t)
         THEN LET r2 == OpenExcl(NoFile, t, p) IN
              [acquired |-> r2.ok, file |-> r2.file]
         ELSE [acquired |-> FALSE, file |-> f]

----------------------------------------------------------------------------
(* The scanned root *)

\* ORDER100.RDY, ORDER200.RDY
Markers == {1, 2}

\* data.txt, notes.md: the files of every companion folder
FolderFiles == {1, 2}

\* modification times start at 2: 1 is the token the orchestrator uses for a
\* marker it cannot stat
FirstTime == 2

\* invocations of run in one behaviour
MaxRuns == 3

\* changes made to the markers in one behaviour
MaxEvents == 1

\* the process running run(cfg)
Runner == 1

\* cfg.FolderConcurrency as RunParallel uses it (0 = auto gives at least 2)
FolderConcurrency == 2

\* the enumeration orders a directory listing can come in
Perms(S) ==
    {f \in [1..Cardinality(S) -> S] : \A i, j \in 1..Cardinality(S) : i # j => f[i] # f[j]}

RECURSIVE InsertSorted(_, _)
InsertSorted(x, s) ==
    IF s = <<>> THEN <<x>>
    ELSE IF x <= Head(s) THEN <<x>> \o s
    ELSE <<Head(s)>> \o InsertSorted(x, Tail(s))

\* sort.Strings / sort.Slice by name
RECURSIVE SortAsc(_)
SortAsc(s) == IF s = <<>> THEN <<>> ELSE InsertSorted(Head(s), SortAsc(Tail(s)))

NoFolder == 0

\* the Match built for one *.RDY file; kind is what os.Stat and os.ReadDir
\* find at the candidate path, listing the order ReadDir returns the entries
MatchOf(m, kind, listing) ==
    IF kind = "dir"
    THEN [readyFile |-> m, folder |-> m, missingFolder |-> FALSE,
          folderEntries |-> SortAsc(listing)]
    ELSE IF kind = "unlistable"
    THEN [readyFile |-> m, folder |-> m, missingFolder |-> TRUE, folderEntries |-> <<>>]
    ELSE [readyFile |-> m, folder |-> NoFolder, missingFolder |-> TRUE,
          folderEntries |-> <<>>]

\* scanner.Scan, non-recursive: the *.RDY entries of root in the order
\* ReadDir gave them, sorted, one Match each
Scan(rdyFiles, kinds, listing) ==
    LET sorted == SortAsc(rdyFiles) IN
    [i \in 1..Len(sorted) |-> MatchOf(sorted[i], kinds[sorted[i]], listing)]

----------------------------------------------------------------------------
(* The dedup store *)

EmptyMap == [k \in {} |-> 0]

MapPut(d, k, v) == [x \in (DOMAIN d) \cup {k} |-> IF x = k THEN v ELSE d[x]]

NoStore == [nil |-> TRUE, Data |-> EmptyMap, LastRun |-> 0, dirty |-> FALSE]

\* state.New
New == [nil |-> FALSE, Data |-> EmptyMap, LastRun |-> 0, dirty |-> FALSE]

NoStateFile == [exists |-> FALSE, files |-> EmptyMap, lastRun |-> 0]

\* Store.Load: a missing file or a read error leaves the store empty; a
\* document that parses is copied into Data and LastRun
LoadLastRunOnly(s, file, readOk) ==
    IF file.exists /\ readOk THEN [s EXCEPT !.LastRun = file.lastRun] ELSE s

Load(s, file, readOk) ==
    IF file.exists /\ readOk
    THEN [s EXCEPT !.Data = file.files, !.LastRun = file.lastRun]
    ELSE s

\* the error Store.Load returns
LoadErr(file, readOk) == file.exists /\ ~readOk

\* Store.Set
SetAlwaysDirty(s, k, v) == [s EXCEPT !.Data = MapPut(s.Data, k, v), !.dirty = TRUE]

Set(s, k, v) ==
    IF k \notin DOMAIN s.Data \/ s.Data[k] # v
    THEN [s EXCEPT !.Data = MapPut(s.Data, k, v), !.dirty = TRUE]
    ELSE s

\* Store.SetLastRun
SetLastRun(s, t) == [s EXCEPT !.LastRun = t, !.dirty = TRUE]

\* Store.Save: nothing unless dirty; the document replaces the file when the
\* write and the rename succeed
SaveFileInPlace(s, file, writeOk) ==
    IF s.dirty THEN [exists |-> TRUE, files |-> s.Data, lastRun |-> s.LastRun] ELSE file

SaveFile(s, file, writeOk) ==
    IF s.dirty /\ writeOk
    THEN [exists |-> TRUE, files |-> s.Data, lastRun |-> s.LastRun]
    ELSE file

SaveStore(s, writeOk) == IF s.dirty /\ writeOk THEN [s EXCEPT !.dirty = FALSE] ELSE s

----------------------------------------------------------------------------
(* func run: classification *)

\* the token of a marker as the orchestrator reads it: fi.ModTime().UnixNano(),
\* or 1 when os.Stat fails
CurMod(m) == IF mexists[m] THEN mtime[m] ELSE 1

\* the loop body of the classification loop: TRUE when the match is appended
\* to matchedFiles
EligibleIgnoringFolder(mt, s, curMod) ==
    \/ s.nil
    \/ ~(mt.readyFile \in DOMAIN s.Data /\ s.Data[mt.readyFile] = curMod)

EligibleSkipKnown(mt, s, curMod) ==
    /\ ~(mt.missingFolder \/ mt.folder = NoFolder)
    /\ \/ s.nil
       \/ mt.readyFile \notin DOMAIN s.Data

Eligible(mt, s, curMod) ==
    /\ ~(mt.missingFolder \/ mt.folder = NoFolder)
    /\ \/ s.nil
       \/ ~(mt.readyFile \in DOMAIN s.Data /\ s.Data[mt.readyFile] = curMod)

\* the state file an earlier invocation without -no-state left behind: both
\* markers recorded with the modification times they still have
PriorStateFile ==
    [exists |-> TRUE, files |-> [m \in Markers |-> FirstTime], lastRun |-> T0]

\* `var st *state.Store`, and state.New + st.Load unless -no-state is set
OpenStoreAlways(noState, file, readOk) == Load(New, file, readOk)

OpenStore(noState, file, readOk) ==
    IF noState THEN NoStore ELSE Load(New, file, readOk)

----------------------------------------------------------------------------
(* func run, one statement group per action *)

NoTask == [pc |-> "none", upl |-> "none", rec |-> "none"]

\* what is remembered of the invocation before the current one: whether it
\* got as far as classifying, its eligible markers, the markers whose upload
\* and whose metadata write succeeded, those with a failed step, whether Load
\* and Save succeeded, whether it wrote a report, and events at its start
NoPrev == [ran |-> FALSE, elig |-> {}, upl |-> {}, rec |-> {}, fail |-> {},
           saved |-> FALSE, loaded |-> FALSE, wrote |-> FALSE, evStart |-> 0]

EligibleSet == {matchedFiles[i].readyFile : i \in 1..Len(matchedFiles)}

\* the loop over matches has run to its end
Classified == idx >= 1 /\ idx > Len(matches)

\* app.AcquireLock, `defer release()`, and the early return when the lock is
\* held by someone else.  Invocations are one tick apart.
RunStart ==
    /\ pc = "idle"
    /\ runNo < MaxRuns
    /\ now' = now + 1
    /\ LET r == AcquireLock(lockFile, now', Runner) IN
        /\ lockFile' = r.file
        /\ owned' = [owned EXCEPT ![Runner] = r.acquired]
        /\ pc' = IF r.acquired THEN "load" ELSE "exit"
        /\ result' = IF r.acquired THEN "running" ELSE "nil"
    /\ runNo' = runNo + 1
    /\ evStart' = events
    /\ UNCHANGED <<lpc, opens, relCalls, lock0, poolVars, storeVars, scanVars, fsVars, prev, chgCommit, seenMod, events>>
    /\ UNCHANGED <<st, loadOk, matches, idx, matchedFiles, fsOn, task, setCalled, out, saved>>

\* state.New and st.Load, unless -no-state
RunLoad ==
    /\ pc = "load"
    /\ \E readOk \in BOOLEAN :
          /\ readOk \/ (stateFile.exists /\ ~cfg.noState)
          /\ st' = OpenStore(cfg.noState, stateFile, readOk)
          /\ loadOk' = (st'.nil \/ ~LoadErr(stateFile, readOk))
    /\ pc' = "scan"
    /\ UNCHANGED <<lockFile, now, lockVars, poolVars, storeVars, scanVars, fsVars, histVars>>
    /\ UNCHANGED <<runNo, matches, idx, matchedFiles, fsOn, task, setCalled, out, result, saved>>

\* scanner.Scan; an error returns "scan: ..."
RunScan ==
    /\ pc = "scan"
    /\ \/ /\ pc' = "exit"
          /\ result' = "error"
          /\ UNCHANGED <<matches, idx>>
       \/ \E order \in Perms({m \in Markers : mexists[m]}), listing \in Perms(FolderFiles) :
            /\ matches' = Scan(order, folder, listing)
            /\ idx' = 1
            /\ pc' = "classify"
            /\ UNCHANGED result
    /\ UNCHANGED <<lockFile, now, lockVars, poolVars, storeVars, scanVars, fsVars, histVars>>
    /\ UNCHANGED <<runNo, st, loadOk, matchedFiles, fsOn, task, setCalled, out, saved>>

\* one iteration of `for _, m := range matches`
RunClassify ==
    /\ pc = "classify"
    /\ idx <= Len(matches)
    /\ LET mt == matches[idx] IN
        IF Eligible(mt, st, CurMod(mt.readyFile))
           THEN /\ matchedFiles' = Append(matchedFiles, mt)
                /\ seenMod' = IF st.nil THEN seenMod
                               ELSE [seenMod EXCEPT ![mt.readyFile] = CurMod(mt.readyFile)]
           ELSE UNCHANGED <<matchedFiles, seenMod>>
    /\ idx' = idx + 1
    /\ UNCHANGED <<lockFile, now, lockVars, poolVars, storeVars, scanVars, fsVars, prev, evStart, chgCommit, events>>
    /\ UNCHANGED <<pc, runNo, st, loadOk, matches, fsOn, task, setCalled, out, result, saved>>

\* cfg.GCSBucket != "": uploader.NewGCS (a failure returns nil at once),
\* uploader.NewFirestore (a failure leaves fs = nil), and the task list
RunSinkInit ==
    /\ pc = "classify"
    /\ Classified
    /\ cfg.sink
    /\ \E gcsOk, fsOk \in BOOLEAN :
        /\ fsOk \/ (gcsOk /\ cfg.firestore)
        /\ IF ~gcsOk
              THEN /\ pc' = "exit"
                   /\ result' = "nil"
                   /\ UNCHANGED <<fsOn, task, prev>>
              ELSE /\ fsOn' = IF ~cfg.firestore THEN "unset"
                              ELSE IF fsOk THEN "ok" ELSE "nil"
                   /\ task' = [m \in Markers |->
                                 IF m \in EligibleSet
                                    THEN [NoTask EXCEPT !.pc = "queued"]
                                    ELSE NoTask]
                   /\ pc' = "pool"
                   /\ prev' = NoPrev
                   /\ UNCHANGED result
    /\ UNCHANGED <<lockFile, now, lockVars, poolVars, storeVars, scanVars, fsVars, evStart, chgCommit, seenMod, events>>
    /\ UNCHANGED <<runNo, st, loadOk, matches, idx, matchedFiles, setCalled, out, saved>>

InFlight == {m \in Markers : task[m].pc \in {"upload", "record", "commit"}}

Min(a, b) == IF a <= b THEN a ELSE b

\* RunParallel hands the folder tasks to its workers in slice order, at most
\* min(concurrency, len(tasks)) at a time
TaskStart(m) ==
    /\ pc = "pool"
    /\ task[m].pc = "queued"
    /\ \A k \in Markers : k < m => task[k].pc # "queued"
    /\ Cardinality(InFlight) < Min(FolderConcurrency, Cardinality(EligibleSet))
    /\ task' = [task EXCEPT ![m].pc = "upload"]
    /\ UNCHANGED <<lockFile, now, lockVars, poolVars, storeVars, scanVars, fsVars, histVars>>
    /\ UNCHANGED <<pc, runNo, st, loadOk, matches, idx, matchedFiles, fsOn, setCalled, out, result, saved>>

\* where the folder task goes after u.UploadListedEntries returned
AfterUploadIgnoringErr(ok, haveFs) == IF haveFs THEN "record" ELSE "commit"

AfterUpload(ok, haveFs) ==
    IF ~ok THEN "done" ELSE IF haveFs THEN "record" ELSE "commit"

\* where the folder task goes after fs.WriteFolderRecord returned
AfterRecordIgnoringErr(ok) == "commit"

AfterRecord(ok) == IF ok THEN "commit" ELSE "done"

\* u.UploadListedEntries(m.FolderEntries, ""): the inner pool over the
\* folder's files succeeds or reports its first error
TaskUpload(m) ==
    /\ pc = "pool"
    /\ task[m].pc = "upload"
    /\ \E ok \in BOOLEAN :
        task' = [task EXCEPT ![m].pc = AfterUpload(ok, fsOn = "ok"),
                             ![m].upl = IF ok THEN "ok" ELSE "fail"]
    /\ UNCHANGED <<lockFile, now, lockVars, poolVars, storeVars, scanVars, fsVars, histVars>>
    /\ UNCHANGED <<pc, runNo, st, loadOk, matches, idx, matchedFiles, fsOn, setCalled, out, result, saved>>

\* fs.WriteFolderRecord(cfg.FirestoreCollection, rec)
TaskRecord(m) ==
    /\ pc = "pool"
    /\ task[m].pc = "record"
    /\ \E ok \in BOOLEAN :
        task' = [task EXCEPT ![m].pc = AfterRecord(ok),
                             ![m].rec = IF ok THEN "ok" ELSE "fail"]
    /\ UNCHANGED <<lockFile, now, lockVars, poolVars, storeVars, scanVars, fsVars, histVars>>
    /\ UNCHANGED <<pc, runNo, st, loadOk, matches, idx, matchedFiles, fsOn, setCalled, out, result, saved>>

\* the token the folder task commits: the marker is stat-ed again
CommitToken(m) == CurMod(m)

\* `if st != nil { st.Set(m.ReadyFile, ...) }; return nil`
TaskCommit(m) ==
    /\ pc = "pool"
    /\ task[m].pc = "commit"
    /\ task' = [task EXCEPT ![m].pc = "done"]
    /\ IF st.nil
          THEN UNCHANGED <<st, setCalled, chgCommit>>
          ELSE /\ st' = Set(st, m, CommitToken(m))
               /\ setCalled' = setCalled \cup {m}
               /\ chgCommit' = chgCommit \ {m}
    /\ UNCHANGED <<lockFile, now, lockVars, poolVars, storeVars, scanVars, fsVars, prev, evStart, seenMod, events>>
    /\ UNCHANGED <<pc, runNo, loadOk, matches, idx, matchedFiles, fsOn, out, result, saved>>

\* app.RunParallel returns once every folder task has returned
RunPoolDone ==
    /\ pc = "pool"
    /\ \A m \in Markers : task[m].pc \in {"none", "done"}
    /\ pc' = "save"
    /\ UNCHANGED <<lockFile, now, lockVars, poolVars, storeVars, scanVars, fsVars, histVars>>
    /\ UNCHANGED <<runNo, st, loadOk, matches, idx, matchedFiles, fsOn, task, setCalled, out, result, saved>>

\* what the report branch writes: the eligible matches as one array, when
\* there is at least one
ReportWritesEmptyArray(mf) == <<mf>>

ReportWrites(mf) == IF Len(mf) > 0 THEN <<mf>> ELSE <<>>

\* no sink: json.NewEncoder(cfg.Stdout).Encode(matchedFiles); an encode
\* error returns "encode initial: ..."
RunReport ==
    /\ pc = "classify"
    /\ Classified
    /\ ~cfg.sink
    /\ \E ok \in BOOLEAN :
        /\ ok \/ Len(matchedFiles) > 0
        /\ IF ok
              THEN /\ out' = out \o ReportWrites(matchedFiles)
                   /\ pc' = "save"
                   /\ UNCHANGED result
              ELSE /\ pc' = "exit"
                   /\ result' = "error"
                   /\ UNCHANGED out
    /\ UNCHANGED <<lockFile, now, lockVars, poolVars, storeVars, scanVars, fsVars, histVars>>
    /\ UNCHANGED <<runNo, st, loadOk, matches, idx, matchedFiles, fsOn, task, setCalled, saved>>

\* st.SetLastRun(time.Now()); st.Save(); the summary; return nil
RunSave ==
    /\ pc = "save"
    /\ IF st.nil
          THEN UNCHANGED <<st, stateFile, saved>>
          ELSE \E writeOk \in BOOLEAN :
                LET s1 == SetLastRun(st, now) IN
                /\ stateFile' = SaveFile(s1, stateFile, writeOk)
                /\ st' = SaveStore(s1, writeOk)
                /\ saved' = (s1.dirty /\ writeOk)
    /\ pc' = "exit"
    /\ result' = "nil"
    /\ UNCHANGED <<lockFile, now, lockVars, poolVars, storeVars, scanVars, cfg, mexists, mtime, folder, histVars>>
    /\ UNCHANGED <<runNo, loadOk, matches, idx, matchedFiles, fsOn, task, setCalled, out>>

\* the deferred calls at return: fs.Close() on the nil client left by a
\* failed NewFirestore dereferences nil; u.Close(); release()
RunExit ==
    /\ pc = "exit"
    /\ lockFile' = ReleaseFile(lockFile, owned[Runner])
    /\ owned' = [owned EXCEPT ![Runner] = FALSE]
    /\ result' = IF fsOn = "nil" THEN "panic" ELSE result
    /\ prev' = [ran |-> Classified,
                elig |-> EligibleSet,
                upl |-> {m \in Markers : task[m].upl = "ok"},
                rec |-> {m \in Markers : task[m].rec = "ok"},
                fail |-> {m \in Markers : task[m].upl = "fail" \/ task[m].rec = "fail"},
                saved |-> saved,
                loaded |-> loadOk,
                wrote |-> (out # <<>>),
                evStart |-> evStart]
    /\ pc' = "idle"
    /\ st' = NoStore
    /\ loadOk' = TRUE
    /\ matches' = <<>>
    /\ idx' = 0
    /\ matchedFiles' = <<>>
    /\ fsOn' = "unset"
    /\ task' = [m \in Markers |-> NoTask]
    /\ setCalled' = {}
    /\ out' = <<>>
    /\ saved' = FALSE
    /\ seenMod' = [m \in Markers |-> 0]
    /\ UNCHANGED <<now, lpc, opens, relCalls, lock0, poolVars, storeVars, scanVars, fsVars, runNo, evStart, chgCommit, events>>

----------------------------------------------------------------------------
(* app.RunParallel, one channel operation or statement per action *)

\* largest len(tasks)
MaxPoolTasks == 3

\* values of runtime.NumCPU(): below the floor of 2, between the floor and
\* the cap, above the cap of 8
NumCPUs == {1, 3, 9}

PoolTaskIds == 1..MaxPoolTasks

Max(a, b) == IF a >= b THEN a ELSE b

\* the nil error; a non-nil error is the index of the task that returned it
NilErr == 0

NotReturned == [returned |-> FALSE, err |-> NilErr]

Returned(e) == [returned |-> TRUE, err |-> e]

\* the two `if concurrency ...` statements: the number of workers started
ConcurrencyAllTasks(c, n, ncpu) == n

Concurrency(c, n, ncpu) ==
    LET c1 == IF c <= 0 THEN Max(Min(ncpu, 8), 2) ELSE c
    IN  IF c1 > n THEN n ELSE c1

Workers == {w \in PoolTaskIds : w <= Concurrency(preq, ptasks, pcpu)}

\* where a worker goes after tasks[j.idx](ctx) returned
AfterTaskOnce(failed) == IF failed THEN "report" ELSE "exit"

AfterTask(failed) == IF failed THEN "report" ELSE "recv"

\* `select { case errCh <- err: cancel(); default: }` on a channel of
\* capacity concurrency
ErrSendNoRoom(ch, cap, e) == ch

ErrSend(ch, cap, e) == IF Len(ch) < cap THEN Append(ch, e) ELSE ch

\* the loop over the closed errCh: the first error in it, or nil
FirstError(ch) == IF ch = <<>> THEN NilErr ELSE ch[1]

\* len(tasks) == 0 returns nil; otherwise the workers are started
PoolStart ==
    /\ fpc = "start"
    /\ IF ptasks = 0
          THEN /\ fpc' = "done"
               /\ ret' = Returned(NilErr)
               /\ UNCHANGED <<wpc, feedIdx>>
          ELSE /\ fpc' = "check"
               /\ feedIdx' = 1
               /\ wpc' = [w \in PoolTaskIds |->
                            IF w <= Concurrency(preq, ptasks, pcpu) THEN "recv" ELSE "none"]
               /\ UNCHANGED ret
    /\ UNCHANGED <<ptasks, pfails, preq, pcpu, wjob, cancelled, errCh, tstate>>
    /\ UNCHANGED <<lockFile, now, lockVars, fsVars, runVars, histVars, storeVars, scanVars, parentDone>>

\* `for i := range tasks { if ctx.Err() != nil { break } ...`, and close(jobs)
\* when the loop ends
AfterFeedCheckIgnoringCtx(done, cancel) == IF done THEN "closed" ELSE "send"

AfterFeedCheck(done, cancel) == IF done \/ cancel THEN "closed" ELSE "send"

FeedCheck ==
    /\ fpc = "check"
    /\ fpc' = AfterFeedCheck(feedIdx > ptasks, cancelled)
    /\ UNCHANGED <<ptasks, pfails, preq, pcpu, feedIdx, wpc, wjob, cancelled, errCh, tstate, ret>>
    /\ UNCHANGED <<lockFile, now, lockVars, fsVars, runVars, histVars, storeVars, scanVars, parentDone>>

\* the next index of `for i := range tasks`
NextJobSame(i) == i

NextJob(i) == i + 1

\* `jobs <- job{idx: i}` meets `for j := range jobs` of worker w: the channel
\* has no buffer, so the send completes only with a receiver
Handoff(w) ==
    /\ fpc = "send"
    /\ wpc[w] = "recv"
    /\ wjob' = [wjob EXCEPT ![w] = feedIdx]
    /\ wpc' = [wpc EXCEPT ![w] = "check"]
    /\ feedIdx' = NextJob(feedIdx)
    /\ fpc' = "check"
    /\ UNCHANGED <<ptasks, pfails, preq, pcpu, cancelled, errCh, tstate, ret>>
    /\ UNCHANGED <<lockFile, now, lockVars, fsVars, runVars, histVars, storeVars, scanVars, parentDone>>

\* where a worker goes with the job it received: `if ctx.Err() != nil
\* { return }`, else the task is called
AfterCheckIgnoringCtx(cancel) == "run"

AfterCheck(cancel) == IF cancel THEN "exit" ELSE "run"

WorkerCheck(w) ==
    /\ wpc[w] = "check"
    /\ wpc' = [wpc EXCEPT ![w] = AfterCheck(cancelled)]
    /\ tstate' = [tstate EXCEPT ![wjob[w]] =
                     IF AfterCheck(cancelled) = "run" THEN "running" ELSE "dropped"]
    /\ UNCHANGED <<ptasks, pfails, preq, pcpu, fpc, feedIdx, wjob, cancelled, errCh, ret>>
    /\ UNCHANGED <<lockFile, now, lockVars, fsVars, runVars, histVars, storeVars, scanVars, parentDone>>

\* tasks[j.idx](ctx) returns
TaskReturn(w) ==
    /\ wpc[w] = "run"
    /\ tstate' = [tstate EXCEPT ![wjob[w]] = IF pfails[wjob[w]] THEN "fail" ELSE "ok"]
    /\ wpc' = [wpc EXCEPT ![w] = AfterTask(pfails[wjob[w]])]
    /\ UNCHANGED <<ptasks, pfails, preq, pcpu, fpc, feedIdx, wjob, cancelled, errCh, ret>>
    /\ UNCHANGED <<lockFile, now, lockVars, fsVars, runVars, histVars, storeVars, scanVars, parentDone>>

\* the select: the error goes into errCh when there is room, and only then
\* cancel() follows; the worker returns either way
WorkerReport(w) ==
    /\ wpc[w] = "report"
    /\ errCh' = ErrSend(errCh, Concurrency(preq, ptasks, pcpu), wjob[w])
    /\ wpc' = [wpc EXCEPT ![w] = IF errCh' # errCh THEN "cancel" ELSE "exit"]
    /\ UNCHANGED <<ptasks, pfails, preq, pcpu, fpc, feedIdx, wjob, cancelled, tstate, ret>>
    /\ UNCHANGED <<lockFile, now, lockVars, fsVars, runVars, histVars, storeVars, scanVars, parentDone>>

\* cancel(); return
WorkerCancel(w) ==
    /\ wpc[w] = "cancel"
    /\ cancelled' = TRUE
    /\ wpc' = [wpc EXCEPT ![w] = "exit"]
    /\ UNCHANGED <<ptasks, pfails, preq, pcpu, fpc, feedIdx, wjob, errCh, tstate, ret>>
    /\ UNCHANGED <<lockFile, now, lockVars, fsVars, runVars, histVars, storeVars, scanVars, parentDone>>

\* `for j := range jobs` ends on the closed channel
WorkerClosed(w) ==
    /\ wpc[w] = "recv"
    /\ fpc = "closed"
    /\ wpc' = [wpc EXCEPT ![w] = "exit"]
    /\ UNCHANGED <<ptasks, pfails, preq, pcpu, fpc, feedIdx, wjob, cancelled, errCh, tstate, ret>>
    /\ UNCHANGED <<lockFile, now, lockVars, fsVars, runVars, histVars, storeVars, scanVars, parentDone>>

\* wg.Wait(); close(errCh); the first error or nil; the deferred cancel()
PoolReturn ==
    /\ fpc = "closed"
    /\ \A w \in PoolTaskIds : wpc[w] \in {"none", "exit"}
    /\ ret' = Returned(FirstError(errCh))
    /\ cancelled' = TRUE
    /\ fpc' = "done"
    /\ UNCHANGED <<ptasks, pfails, preq, pcpu, feedIdx, wpc, wjob, errCh, tstate>>
    /\ UNCHANGED <<lockFile, now, lockVars, fsVars, runVars, histVars, storeVars, scanVars, parentDone>>

\* the context handed to RunParallel is cancelled by its owner; ctx, derived
\* from it by context.WithCancel, is cancelled with it
ParentCancel ==
    /\ ~parentDone
    /\ fpc # "done"
    /\ parentDone' = TRUE
    /\ cancelled' = TRUE
    /\ UNCHANGED <<ptasks, pfails, preq, pcpu, fpc, feedIdx, wpc, wjob, errCh, tstate, ret>>
    /\ UNCHANGED <<lockFile, now, lockVars, fsVars, runVars, histVars, storeVars, scanVars>>

\* the calling goroutine waits in `jobs <- job{...}` and no worker is left to
\* receive: RunParallel never returns
PoolStuck ==
    /\ fpc = "send"
    /\ \A w \in PoolTaskIds : wpc[w] \in {"none", "exit"}

IdlePool ==
    /\ ptasks = 0
    /\ pfails = [t \in PoolTaskIds |-> FALSE]
    /\ preq = 0
    /\ pcpu = 1
    /\ fpc = "start"
    /\ feedIdx = 0
    /\ wpc = [w \in PoolTaskIds |-> "none"]
    /\ wjob = [w \in PoolTaskIds |-> 0]
    /\ cancelled = FALSE
    /\ errCh = <<>>
    /\ tstate = [t \in PoolTaskIds |-> "new"]
    /\ ret = NotReturned
    /\ parentDone = FALSE

----------------------------------------------------------------------------
(* The dedup store on disk: Store.Set, Store.Save and Store.Load with the
   bytes they write and read *)

MaxOps == 2

MaxToken == 2

MaxStamp == 1

\* marker paths used as keys: an ordinary name, a name with a byte that is
\* not valid UTF-8, and the same name with U+FFFD in its place
Keys == {"a.RDY", "b<FF>.RDY", "b<U+FFFD>.RDY"}

\* the keys in the byte order encoding/json sorts map keys by
KeyOrder == <<"a.RDY", "b<U+FFFD>.RDY", "b<FF>.RDY">>

Tokens == 1..MaxToken

Stamps == 1..MaxStamp

\* json.Marshal of a string: coerced to valid UTF-8, every invalid byte
\* replaced by U+FFFD
ToValidUTF8(k) == IF k = "b<FF>.RDY" THEN "b<U+FFFD>.RDY" ELSE k

\* the decimal digits json.Marshal writes for an int64 (and, here, for the
\* nanoseconds of an RFC 3339 timestamp)
RECURSIVE FormatInt(_)
FormatInt(n) == IF n < 10 THEN <<n>> ELSE Append(FormatInt(n \div 10), n % 10)

RECURSIVE ParseInt(_)
ParseInt(d) ==
    IF Len(d) = 1 THEN d[1]
    ELSE 10 * ParseInt(SubSeq(d, 1, Len(d) - 1)) + d[Len(d)]

\* the content of a file: absent, bytes that are not a JSON document, the
\* truncated beginning of a document, or a complete document with its
\* members (files is the list of members of the "files" object, in order)
Bytes(kind, v, t, f, has) ==
    [kind |-> kind, version |-> v, last_run |-> t, files |-> f, hasFiles |-> has]

Absent == Bytes("absent", 0, <<0>>, <<>>, FALSE)

NotJSON == Bytes("not-json", 0, <<0>>, <<>>, FALSE)

Partial == Bytes("partial", 0, <<0>>, <<>>, FALSE)

\* ds := diskState{Version: 1, LastRun: s.LastRun, Files: s.Data}
DiskStateOf(s) == [Version |-> 1, LastRun |-> s.LastRun, Files |-> s.Data, nilFiles |-> FALSE]

\* json.Marshal(ds): the map keys sorted, each written as a JSON string
Marshal(ds) ==
    LET ks == SelectSeq(KeyOrder, LAMBDA k : k \in DOMAIN ds.Files) IN
    Bytes("json", ds.Version, FormatInt(ds.LastRun),
          [i \in 1..Len(ks) |->
              [key |-> ToValidUTF8(ks[i]), val |-> FormatInt(ds.Files[ks[i]])]],
          TRUE)

\* a JSON object decoded into a map: a member repeated later replaces the
\* earlier one
RECURSIVE ObjectToMap(_)
ObjectToMap(members) ==
    IF members = <<>> THEN EmptyMap
    ELSE LET n == Len(members) IN
         MapPut(ObjectToMap(SubSeq(members, 1, n - 1)),
                members[n].key, ParseInt(members[n].val))

\* json.Unmarshal(b, &ds): an error unless b is a JSON document; a member
\* that is missing leaves the zero value (Files nil)
Unmarshal(b) ==
    IF b.kind = "json"
    THEN [err |-> FALSE,
          ds |-> [Version |-> b.version, LastRun |-> ParseInt(b.last_run),
                  Files |-> ObjectToMap(b.files), nilFiles |-> ~b.hasFiles]]
    ELSE [err |-> TRUE,
          ds |-> [Version |-> 0, LastRun |-> 0, Files |-> EmptyMap, nilFiles |-> TRUE]]

\* maps.Copy(dst, src)
MapsCopy(dst, src) ==
    [k \in (DOMAIN dst) \cup (DOMAIN src) |-> IF k \in DOMAIN src THEN src[k] ELSE dst[k]]

\* Store.Load on the content b of the file at s.Path: the store it leaves
\* and whether it returns an error
LoadStoreStrict(s, hasPath, b, readOk) ==
    IF ~hasPath \/ b.kind = "absent" THEN [store |-> s, err |-> FALSE]
    ELSE IF ~readOk \/ Unmarshal(b).err THEN [store |-> s, err |-> TRUE]
    ELSE [store |-> [s EXCEPT !.Data = MapsCopy(s.Data, Unmarshal(b).ds.Files),
                              !.LastRun = Unmarshal(b).ds.LastRun],
          err |-> FALSE]

LoadStore(s, hasPath, b, readOk) ==
    IF ~hasPath \/ b.kind = "absent" THEN [store |-> s, err |-> FALSE]
    ELSE IF ~readOk THEN [store |-> s, err |-> TRUE]
    ELSE IF ~Unmarshal(b).err /\ ~Unmarshal(b).ds.nilFiles
    THEN [store |-> [s EXCEPT !.Data = MapsCopy(s.Data, Unmarshal(b).ds.Files),
                              !.LastRun = Unmarshal(b).ds.LastRun],
          err |-> FALSE]
    ELSE [store |-> s, err |-> FALSE]

\* os.WriteFile(tmp, b, 0o644) opens the file with O_TRUNC before it writes
TruncateInPlace(fs) == [fs EXCEPT !.path = Partial]

Truncate(fs) == [fs EXCEPT !.tmp = Partial]

\* ... and then writes b
WriteAll(fs, b) == [fs EXCEPT !.tmp = b]

\* os.Rename(tmp, s.Path)
Rename(fs) == [path |-> fs.tmp, tmp |-> Absent]

NoOp == [op |-> "none", key |-> "", val |-> 0]

\* s.Set(path, value)
StoreSet(k, v) ==
    /\ spc = "idle"
    /\ sops < MaxOps
    /\ store' = Set(store, k, v)
    /\ sops' = sops + 1
    /\ lastOp' = [op |-> "Set", key |-> k, val |-> v]
    /\ UNCHANGED <<sPath, sfiles, spc, sbuf, serr, sbefore, fresh, lerr>>
    /\ UNCHANGED <<lockFile, now, lockVars, fsVars, runVars, histVars, poolVars, scanVars>>

\* s.SetLastRun(t)
StoreSetLastRun(t) ==
    /\ spc = "idle"
    /\ sops < MaxOps
    /\ store' = SetLastRun(store, t)
    /\ sops' = sops + 1
    /\ lastOp' = [op |-> "SetLastRun", key |-> "", val |-> t]
    /\ UNCHANGED <<sPath, sfiles, spc, sbuf, serr, sbefore, fresh, lerr>>
    /\ UNCHANGED <<lockFile, now, lockVars, fsVars, runVars, histVars, poolVars, scanVars>>

\* s.Save() is called: `if s.Path == "" || !s.dirty { return nil }`
SaveCall ==
    /\ spc = "idle"
    /\ lastOp' = [op |-> "Save", key |-> "", val |-> 0]
    /\ IF ~sPath \/ ~store.dirty
          THEN /\ serr' = "nil"
               /\ UNCHANGED <<spc, sbefore>>
          ELSE /\ spc' = "mkdir"
               /\ sbefore' = sfiles.path
               /\ serr' = "none"
    /\ UNCHANGED <<sPath, store, sfiles, sbuf, fresh, lerr, sops>>
    /\ UNCHANGED <<lockFile, now, lockVars, fsVars, runVars, histVars, poolVars, scanVars>>

\* a step of Save that can fail: on an error Save returns it
SaveStep(from, to, ok) ==
    /\ spc = from
    /\ IF ok THEN spc' = to /\ UNCHANGED serr
             ELSE spc' = "idle" /\ serr' = "err"

\* os.MkdirAll(filepath.Dir(s.Path), 0o755)
SaveMkdir ==
    /\ \E ok \in BOOLEAN : SaveStep("mkdir", "marshal", ok)
    /\ UNCHANGED <<sPath, store, sfiles, sbuf, sbefore, fresh, lerr, sops, lastOp>>
    /\ UNCHANGED <<lockFile, now, lockVars, fsVars, runVars, histVars, poolVars, scanVars>>

\* b, err := json.Marshal(ds)
SaveMarshal ==
    /\ SaveStep("marshal", "open", TRUE)
    /\ sbuf' = Marshal(DiskStateOf(store))
    /\ UNCHANGED <<sPath, store, sfiles, sbefore, fresh, lerr, sops, lastOp>>
    /\ UNCHANGED <<lockFile, now, lockVars, fsVars, runVars, histVars, poolVars, scanVars>>

\* os.WriteFile(tmp, ...): the file is created or truncated
SaveOpen ==
    /\ \E ok \in BOOLEAN :
          /\ SaveStep("open", "write", ok)
          /\ sfiles' = IF ok THEN Truncate(sfiles) ELSE sfiles
    /\ UNCHANGED <<sPath, store, sbuf, sbefore, fresh, lerr, sops, lastOp>>
    /\ UNCHANGED <<lockFile, now, lockVars, fsVars, runVars, histVars, poolVars, scanVars>>

\* os.WriteFile(tmp, ...): the bytes are written
SaveWrite ==
    /\ \E ok \in BOOLEAN :
          /\ SaveStep("write", "rename", ok)
          /\ sfiles' = IF ok THEN WriteAll(sfiles, sbuf) ELSE sfiles
    /\ UNCHANGED <<sPath, store, sbuf, sbefore, fresh, lerr, sops, lastOp>>
    /\ UNCHANGED <<lockFile, now, lockVars, fsVars, runVars, histVars, poolVars, scanVars>>

\* os.Rename(tmp, s.Path)
SaveRename ==
    /\ \E ok \in BOOLEAN :
          /\ SaveStep("rename", "clear", ok)
          /\ sfiles' = IF ok THEN Rename(sfiles) ELSE sfiles
    /\ UNCHANGED <<sPath, store, sbuf, sbefore, fresh, lerr, sops, lastOp>>
    /\ UNCHANGED <<lockFile, now, lockVars, fsVars, runVars, histVars, poolVars, scanVars>>

\* s.dirty = false; return nil
SaveClear ==
    /\ spc = "clear"
    /\ store' = [store EXCEPT !.dirty = FALSE]
    /\ serr' = "nil"
    /\ spc' = "idle"
    /\ UNCHANGED <<sPath, sfiles, sbuf, sbefore, fresh, lerr, sops, lastOp>>
    /\ UNCHANGED <<lockFile, now, lockVars, fsVars, runVars, histVars, poolVars, scanVars>>

\* the process dies in the middle of Save
Crash ==
    /\ spc \notin {"idle", "crashed"}
    /\ spc' = "crashed"
    /\ UNCHANGED <<sPath, store, sfiles, sbuf, serr, sbefore, fresh, lerr, sops, lastOp>>
    /\ UNCHANGED <<lockFile, now, lockVars, fsVars, runVars, histVars, poolVars, scanVars>>

\* s2 := New(p); s2.Load(), by this process or by the next one
FreshLoadWith(readOk) ==
    /\ spc \in {"idle", "crashed"}
    /\ fresh' = LoadStore(New, sPath, sfiles.path, readOk).store
    /\ lerr' = LoadStore(New, sPath, sfiles.path, readOk).err
    /\ lastOp' = [op |-> "Load", key |-> "", val |-> 0]
    /\ UNCHANGED <<sPath, store, sfiles, spc, sbuf, serr, sbefore, sops>>
    /\ UNCHANGED <<lockFile, now, lockVars, fsVars, runVars, histVars, poolVars, scanVars>>

FreshLoad == \E readOk \in BOOLEAN : FreshLoadWith(readOk)

IdleStore ==
    /\ sPath = TRUE
    /\ store = New
    /\ sfiles = [path |-> Absent, tmp |-> Absent]
    /\ spc = "idle"
    /\ sbuf = Absent
    /\ serr = "none"
    /\ sbefore = Absent
    /\ fresh = New
    /\ lerr = FALSE
    /\ sops = 0
    /\ lastOp = NoOp

----------------------------------------------------------------------------
(* scanner.Scan over a directory tree: paths and names are strings, written
   as sequences of characters, so that sorting and suffix tests are computed
   on the bytes *)

\* number of Scan calls on one tree
MaxScans == 2

\* the byte value of a character
Ord(c) ==
    CASE c = "." -> 46 [] c = "/" -> 47
      [] c = "A" -> 65 [] c = "C" -> 67 [] c = "D" -> 68 [] c = "R" -> 82
      [] c = "X" -> 88 [] c = "Y" -> 89
      [] c = "d" -> 100 [] c = "r" -> 114 [] c = "x" -> 120 [] c = "y" -> 121

\* strings.ToUpper, per character
UpperChar(c) ==
    CASE c = "d" -> "D" [] c = "r" -> "R" [] c = "x" -> "X" [] c = "y" -> "Y"
      [] OTHER -> c

ToUpper(s) == [i \in 1..Len(s) |-> UpperChar(s[i])]

\* a < b for strings, byte by byte (the order of sort.Strings)
RECURSIVE StrLess(_, _)
StrLess(a, b) ==
    IF b = <<>> THEN FALSE
    ELSE IF a = <<>> THEN TRUE
    ELSE IF Ord(Head(a)) # Ord(Head(b)) THEN Ord(Head(a)) < Ord(Head(b))
    ELSE StrLess(Tail(a), Tail(b))

RECURSIVE InsertString(_, _)
InsertString(x, s) ==
    IF s = <<>> THEN <<x>>
    ELSE IF ~StrLess(Head(s), x) THEN <<x>> \o s
    ELSE <<Head(s)>> \o InsertString(x, Tail(s))

RECURSIVE SortStrings(_)
SortStrings(s) == IF s = <<>> THEN <<>> ELSE InsertString(Head(s), SortStrings(Tail(s)))

\* strings.HasSuffix
HasSuffix(s, suf) ==
    /\ Len(s) >= Len(suf)
    /\ SubSeq(s, Len(s) - Len(suf) + 1, Len(s)) = suf

\* the position of the last c in s, 0 when there is none
LastIndex(s, c) ==
    LET at == {i \in 1..Len(s) : s[i] = c}
    IN  IF at = {} THEN 0 ELSE CHOOSE i \in at : \A j \in at : j <= i

\* filepath.Base, filepath.Dir, filepath.Ext and filepath.Join on clean
\* paths that hold a separator
Base(p) == SubSeq(p, LastIndex(p, "/") + 1, Len(p))

Dir(p) == SubSeq(p, 1, LastIndex(p, "/") - 1)

Ext(name) ==
    IF LastIndex(name, ".") = 0 THEN <<>> ELSE SubSeq(name, LastIndex(name, "."), Len(name))

Join(dir, name) == dir \o <<"/">> \o name

\* strings.TrimSuffix
TrimSuffix(s, suf) ==
    IF HasSuffix(s, suf) THEN SubSeq(s, 1, Len(s) - Len(suf)) ELSE s

\* strings.HasSuffix(strings.ToUpper(name), ".RDY")
IsReadyName(name) == HasSuffix(ToUpper(name), <<".", "R", "D", "Y">>)

\* the tree scanned: under the root r a marker A.RDY and an entry A, and
\* under A two plain files, a marker C.rdy and an entry C
Root == <<"r">>

NameA == <<"A">>

NameC == <<"C">>

NameX == <<"x">>

NameY == <<"y">>

MarkerA == <<"A", ".", "R", "D", "Y">>

MarkerC == <<"C", ".", "r", "d", "y">>

PathA == Join(Root, NameA)

TreePaths ==
    {Join(Root, MarkerA), PathA, Join(PathA, NameX), Join(PathA, NameY),
     Join(PathA, MarkerC), Join(PathA, NameC)}

\* what is at a path: nothing, a regular file, a directory, a directory that
\* cannot be listed, or a symbolic link to a directory
Trees ==
    {t \in [TreePaths -> {"absent", "file", "dir", "nolist", "link"}] :
        /\ \A p \in TreePaths : IsReadyName(Base(p)) => t[p] \in {"absent", "file"}
        /\ t[Join(PathA, NameX)] \in {"absent", "file"}
        /\ t[Join(PathA, NameY)] \in {"absent", "file"}
        /\ t[Join(PathA, NameC)] # "link"
        /\ \A p \in TreePaths :
              (Dir(p) = PathA /\ t[p] # "absent") => t[PathA] \in {"dir", "nolist", "link"}}

\* the orders in which the file system hands out names
RawOrders ==
    {<<NameA, MarkerA, NameC, MarkerC, NameX, NameY>>,
     <<NameY, NameX, MarkerC, NameC, MarkerA, NameA>>,
     <<MarkerC, NameY, MarkerA, NameC, NameA, NameX>>}

\* Lstat: the type a DirEntry reports; Stat follows the link
Lstat(t, p) == IF p = Root THEN "dir" ELSE t[p]

Stat(t, p) == IF Lstat(t, p) = "link" THEN "dir" ELSE Lstat(t, p)

\* DirEntry.IsDir: the type bits say directory (a symbolic link's do not)
IsDir(kind) == kind \in {"dir", "nolist"}

\* d.Type()&os.ModeSymlink != 0
IsSymlink(kind) == kind = "link"

\* os.ReadDir: the names in the directory, sorted by file name, or an error
ReadDir(t, p, raw) ==
    [err   |-> Stat(t, p) = "nolist" /\ Lstat(t, p) # "link",
     names |-> SortStrings(SelectSeq(raw, LAMBDA n :
                   Join(p, n) \in TreePaths /\ t[Join(p, n)] # "absent"))]

\* walkFn: what it returns for an entry: "add" stands for appending the
\* path and returning nil
WalkFn(kind, name, err, opts) ==
    IF err THEN "err"
    ELSE IF ~IsDir(kind) THEN (IF IsReadyName(name) THEN "add" ELSE "nil")
    ELSE IF ~opts.FollowSymlinks /\ IsSymlink(kind) THEN "skip"
    ELSE "nil"

\* filepath.WalkDir: the function is called for the entry; a directory entry
\* is then read, and a read error is handed to the function again, whose
\* answer ends the walk; otherwise the names are walked in order
RECURSIVE WalkDir(_, _, _, _, _)
RECURSIVE WalkNames(_, _, _, _, _, _)
WalkDir(t, p, raw, opts, acc) ==
    LET kind == Lstat(t, p)
        r    == WalkFn(kind, Base(p), FALSE, opts)
        rd   == ReadDir(t, p, raw)
    IN  IF acc.err THEN acc
        ELSE IF r = "add" THEN [acc EXCEPT !.files = Append(@, p)]
        ELSE IF r = "skip" \/ ~IsDir(kind) THEN acc
        ELSE IF rd.err THEN [acc EXCEPT !.err = WalkFn(kind, Base(p), TRUE, opts) = "err"]
        ELSE WalkNames(t, p, rd.names, raw, opts, acc)

WalkNames(t, p, names, raw, opts, acc) ==
    IF names = <<>> THEN acc
    ELSE WalkNames(t, p, Tail(names), raw, opts,
                   WalkDir(t, Join(p, Head(names)), raw, opts, acc))

\* the non-recursive branch: the entries of root that are no directories and
\* carry the suffix
RootReadyFiles(t, raw) ==
    LET names == ReadDir(t, Root, raw).names
        ready == SelectSeq(names, LAMBDA n : ~IsDir(Lstat(t, Join(Root, n))) /\ IsReadyName(n))
    IN  [err |-> FALSE, files |-> [i \in 1..Len(ready) |-> Join(Root, ready[i])]]

\* sort.Strings(rdyFiles)
UnsortedPaths(files) == files

SortedPaths(files) == SortStrings(files)

\* the FileEntry values of a listing, and sort.Slice by Name
FolderEntriesOf(dir, names) ==
    LET sorted == SortStrings(names)
    IN  [i \in 1..Len(sorted) |-> [Name |-> sorted[i], Path |-> Join(dir, sorted[i])]]

\* the loop body: the Match for one marker path
MatchFor(t, rdy, raw) ==
    LET base         == Base(rdy)
        nameNoExt    == TrimSuffix(base, Ext(base))
        candidateDir == Join(Dir(rdy), nameNoExt)
        found        == IF candidateDir \in TreePaths THEN Stat(t, candidateDir) ELSE "absent"
        rd           == ReadDir(t, candidateDir, raw)
    IN  IF found \in {"dir", "nolist"}
        THEN IF rd.err
             THEN [ReadyFile |-> rdy, Folder |-> candidateDir, MissingFolder |-> TRUE,
                   FolderEntries |-> <<>>]
             ELSE [ReadyFile |-> rdy, Folder |-> candidateDir, MissingFolder |-> FALSE,
                   FolderEntries |-> FolderEntriesOf(candidateDir, rd.names)]
        ELSE [ReadyFile |-> rdy, Folder |-> <<>>, MissingFolder |-> TRUE,
              FolderEntries |-> <<>>]

NoScan == [err |-> FALSE, matches |-> <<>>]

\* scanner.Scan(root, opts) on tree t when the file system enumerates in
\* the order raw
ScanTree(t, opts, raw) ==
    LET found == IF opts.Recursive
                 THEN WalkDir(t, Root, raw, opts, [err |-> FALSE, files |-> <<>>])
                 ELSE RootReadyFiles(t, raw)
        rdyFiles == SortedPaths(found.files)
    IN  IF found.err
        THEN [err |-> TRUE, matches |-> <<>>]
        ELSE [err |-> FALSE,
              matches |-> [i \in 1..Len(rdyFiles) |-> MatchFor(t, rdyFiles[i], raw)]]

\* one call of Scan
ScanCall ==
    /\ scans < MaxScans
    /\ \E raw \in RawOrders :
          /\ scanRes' = ScanTree(tree, sopts, raw)
          /\ scanRaws' = Append(scanRaws, raw)
    /\ scanPrev' = scanRes
    /\ scans' = scans + 1
    /\ UNCHANGED <<tree, sopts>>
    /\ UNCHANGED <<lockFile, now, lockVars, fsVars, runVars, histVars, poolVars, storeVars>>

IdleScan ==
    /\ tree = [p \in TreePaths |-> "absent"]
    /\ sopts = [Recursive |-> FALSE, FollowSymlinks |-> FALSE]
    /\ scanRes = NoScan
    /\ scanPrev = NoScan
    /\ scans = 0
    /\ scanRaws = <<>>

----------------------------------------------------------------------------
(* The world around the run *)

\* another invocation is still to come
MoreRuns == runNo < MaxRuns

\* run reads the markers while it scans, classifies and commits; a change
\* at any other point of a run is a change between two runs
Changed(m) ==
    /\ pc \in {"scan", "classify", "pool"} \/ (pc = "idle" /\ MoreRuns)
    /\ events < MaxEvents
    /\ events' = events + 1
    /\ chgCommit' = chgCommit \cup {m}
    /\ UNCHANGED <<prev, evStart, seenMod>>

\* the producer touches or rewrites a marker
Touch(m) ==
    /\ mexists[m]
    /\ mtime' = [mtime EXCEPT ![m] = @ + 1]
    /\ Changed(m)
    /\ UNCHANGED <<lockFile, now, lockVars, poolVars, storeVars, scanVars, cfg, mexists, folder, stateFile, runVars>>

\* a marker is deleted
RemoveMarker(m) ==
    /\ mexists[m]
    /\ mexists' = [mexists EXCEPT ![m] = FALSE]
    /\ Changed(m)
    /\ UNCHANGED <<lockFile, now, lockVars, poolVars, storeVars, scanVars, cfg, mtime, folder, stateFile, runVars>>

\* a marker is dropped again
CreateMarker(m) ==
    /\ ~mexists[m]
    /\ mexists' = [mexists EXCEPT ![m] = TRUE]
    /\ mtime' = [mtime EXCEPT ![m] = @ + 1]
    /\ Changed(m)
    /\ UNCHANGED <<lockFile, now, lockVars, poolVars, storeVars, scanVars, cfg, folder, stateFile, runVars>>

\* another local-file-sync process takes the free lock path
StrangerLocks ==
    /\ pc = "idle"
    /\ MoreRuns
    /\ ~lockFile.exists
    /\ lockFile' = NewLockFile(now, Stranger)
    /\ UNCHANGED <<now, lockVars, poolVars, storeVars, scanVars, fsVars, runVars, histVars>>

\* and releases it
StrangerUnlocks ==
    /\ pc = "idle"
    /\ MoreRuns
    /\ lockFile.exists
    /\ lockFile.owner = Stranger
    /\ lockFile' = NoFile
    /\ UNCHANGED <<now, lockVars, poolVars, storeVars, scanVars, fsVars, runVars, histVars>>

IdleLock ==
    /\ lpc = [p \in LockProcs |-> "call"]
    /\ owned = [p \in LockProcs |-> FALSE]
    /\ opens = [p \in LockProcs |-> 0]
    /\ relCalls = [p \in LockProcs |-> 0]

IdleRun ==
    /\ pc = "idle"
    /\ runNo = 0
    /\ st = NoStore
    /\ loadOk = TRUE
    /\ matches = <<>>
    /\ idx = 0
    /\ matchedFiles = <<>>
    /\ fsOn = "unset"
    /\ task = [m \in Markers |-> NoTask]
    /\ setCalled = {}
    /\ out = <<>>
    /\ result = "nil"
    /\ saved = FALSE
    /\ prev = NoPrev
    /\ evStart = 0
    /\ chgCommit = {}
    /\ seenMod = [m \in Markers |-> 0]
    /\ events = 0

Configs ==
    {c \in [sink : BOOLEAN, noState : BOOLEAN, firestore : BOOLEAN] : c.firestore => c.sink}

Init ==
    /\ now = T0
    /\ lockFile = NoFile
    /\ lock0 = NoFile
    /\ IdleLock
    /\ cfg \in Configs
    /\ mexists \in {f \in [Markers -> BOOLEAN] : f[1]}
    /\ mtime = [m \in Markers |-> FirstTime]
    /\ folder \in {f \in [Markers -> {"dir", "missing", "unlistable"}] : f[1] = "dir"}
    /\ stateFile \in (IF cfg.noState THEN {NoStateFile, PriorStateFile} ELSE {NoStateFile})
    /\ IdleRun
    /\ IdlePool
    /\ IdleStore
    /\ IdleScan

Next ==
    \/ RunStart
    \/ RunLoad
    \/ RunScan
    \/ RunClassify
    \/ RunSinkInit
    \/ \E m \in Markers : TaskStart(m)
    \/ \E m \in Markers : TaskUpload(m)
    \/ \E m \in Markers : TaskRecord(m)
    \/ \E m \in Markers : TaskCommit(m)
    \/ RunPoolDone
    \/ RunReport
    \/ RunSave
    \/ RunExit
    \/ \E m \in Markers : Touch(m)
    \/ \E m \in Markers : RemoveMarker(m)
    \/ \E m \in Markers : CreateMarker(m)
    \/ StrangerLocks
    \/ StrangerUnlocks

InitLock ==
    /\ cfg = [sink |-> FALSE, noState |-> FALSE, firestore |-> FALSE]
    /\ mexists = [m \in Markers |-> TRUE]
    /\ mtime = [m \in Markers |-> FirstTime]
    /\ folder = [m \in Markers |-> "dir"]
    /\ stateFile = NoStateFile
    /\ IdleRun
    /\ now = T0
    /\ lockFile \in {NoFile} \cup {NewLockFile(t, Stranger) : t \in 0..T0}
    /\ lock0 = lockFile
    /\ lpc = [p \in LockProcs |-> "call"]
    /\ owned = [p \in LockProcs |-> FALSE]
    /\ opens = [p \in LockProcs |-> 0]
    /\ relCalls = [p \in LockProcs |-> 0]
    /\ IdlePool
    /\ IdleStore
    /\ IdleScan

NextLock ==
    \/ \E p \in LockProcs : LockOpen(p)
    \/ \E p \in LockProcs : LockStat(p)
    \/ \E p \in LockProcs : LockRemove(p)
    \/ \E p \in LockProcs : LockRetry(p)
    \/ \E p \in LockProcs : LockRelease(p)
    \/ LockTick

vars == <<lockFile, now, lockVars, fsVars, runVars, histVars, poolVars, storeVars,
         scanVars>>

Spec == Init /\ [][Next]_vars

SpecLock == InitLock /\ [][NextLock]_vars

InitPool ==
    /\ cfg = [sink |-> FALSE, noState |-> FALSE, firestore |-> FALSE]
    /\ mexists = [m \in Markers |-> TRUE]
    /\ mtime = [m \in Markers |-> FirstTime]
    /\ folder = [m \in Markers |-> "dir"]
    /\ stateFile = NoStateFile
    /\ IdleRun
    /\ now = T0
    /\ lockFile = NoFile
    /\ lock0 = NoFile
    /\ IdleLock
    /\ ptasks \in 0..MaxPoolTasks
    /\ pfails \in {f \in [PoolTaskIds -> BOOLEAN] : \A t \in PoolTaskIds : f[t] => t <= ptasks}
    /\ preq \in 0..(MaxPoolTasks + 1)
    /\ pcpu \in NumCPUs
    /\ preq > 0 => pcpu = 1
    /\ fpc = "start"
    /\ feedIdx = 0
    /\ wpc = [w \in PoolTaskIds |-> "none"]
    /\ wjob = [w \in PoolTaskIds |-> 0]
    /\ cancelled = FALSE
    /\ errCh = <<>>
    /\ tstate = [t \in PoolTaskIds |-> "new"]
    /\ ret = NotReturned
    /\ parentDone = FALSE
    /\ IdleStore
    /\ IdleScan

NextPool ==
    \/ PoolStart
    \/ FeedCheck
    \/ \E w \in PoolTaskIds : Handoff(w)
    \/ \E w \in PoolTaskIds : WorkerCheck(w)
    \/ \E w \in PoolTaskIds : TaskReturn(w)
    \/ \E w \in PoolTaskIds : WorkerReport(w)
    \/ \E w \in PoolTaskIds : WorkerCancel(w)
    \/ \E w \in PoolTaskIds : WorkerClosed(w)
    \/ PoolReturn

SpecPool == InitPool /\ [][NextPool]_vars

\* the Go scheduler runs every goroutine that can take a step
SpecPoolFair == SpecPool /\ WF_vars(NextPool)

NextPoolCtx ==
    \/ NextPool
    \/ ParentCancel

\* an explicit concurrency up to len(tasks), or the automatic one
InitPoolCtx ==
    /\ InitPool
    /\ pcpu = 1
    /\ preq <= ptasks

\* RunParallel under a parent context that its owner may cancel at any moment
SpecPoolCtx == InitPoolCtx /\ [][NextPoolCtx]_vars

----------------------------------------------------------------------------
(* A folder task with its inner file pool: the pool above is the RunParallel
   call of u.UploadListedEntries for the first eligible item; the sibling
   item's upload is one step *)

\* the item whose inner pool is followed step by step
PoolItem == 1

\* `if err := app.RunParallel(u.ctx, u.Concurrency, tasks); err != nil {
\* return nil, err }; return meta, nil`, back in the folder task
UploadReturn(m) ==
    /\ pc = "pool"
    /\ m = PoolItem
    /\ task[m].pc = "upload"
    /\ fpc = "done"
    /\ ret.returned
    /\ task' = [task EXCEPT ![m].pc = AfterUpload(ret.err = NilErr, fsOn = "ok"),
                            ![m].upl = IF ret.err = NilErr THEN "ok" ELSE "fail"]
    /\ UNCHANGED <<lockFile, now, lockVars, poolVars, storeVars, scanVars, fsVars, histVars>>
    /\ UNCHANGED <<pc, runNo, st, loadOk, matches, idx, matchedFiles, fsOn, setCalled, out, result, saved>>

\* the first invocation in delivery mode with state enabled, both example
\* items eligible, the first item's task started and about to call
\* RunParallel over the folder's files with -file-concurrency preq
InitFolder ==
    /\ cfg \in {c \in Configs : c.sink /\ ~c.noState}
    /\ mexists = [m \in Markers |-> TRUE]
    /\ mtime = [m \in Markers |-> FirstTime]
    /\ folder = [m \in Markers |-> "dir"]
    /\ stateFile = NoStateFile
    /\ now = T0 + 1
    /\ lockFile = NewLockFile(T0 + 1, Runner)
    /\ lock0 = NoFile
    /\ lpc = [p \in LockProcs |-> "call"]
    /\ owned = [p \in LockProcs |-> p = Runner]
    /\ opens = [p \in LockProcs |-> 0]
    /\ relCalls = [p \in LockProcs |-> 0]
    /\ pc = "pool"
    /\ runNo = 1
    /\ st = New
    /\ loadOk = TRUE
    /\ matches = Scan(<<1, 2>>, folder, <<1, 2>>)
    /\ idx = Len(matches) + 1
    /\ matchedFiles = matches
    /\ fsOn = (IF cfg.firestore THEN "ok" ELSE "unset")
    /\ task = [m \in Markers |->
                 [NoTask EXCEPT !.pc = IF m = PoolItem THEN "upload" ELSE "queued"]]
    /\ setCalled = {}
    /\ out = <<>>
    /\ result = "running"
    /\ saved = FALSE
    /\ prev = NoPrev
    /\ evStart = 0
    /\ chgCommit = {}
    /\ seenMod = mtime
    /\ events = 0
    /\ ptasks \in 1..Cardinality(FolderFiles)
    /\ pfails \in {f \in [PoolTaskIds -> BOOLEAN] : \A t \in PoolTaskIds : f[t] => t <= ptasks}
    /\ preq \in 0..Cardinality(FolderFiles)
    /\ pcpu \in NumCPUs
    /\ preq > 0 => pcpu = 1
    /\ fpc = "start"
    /\ feedIdx = 0
    /\ wpc = [w \in PoolTaskIds |-> "none"]
    /\ wjob = [w \in PoolTaskIds |-> 0]
    /\ cancelled = FALSE
    /\ errCh = <<>>
    /\ tstate = [t \in PoolTaskIds |-> "new"]
    /\ ret = NotReturned
    /\ parentDone = FALSE
    /\ IdleStore
    /\ IdleScan

NextFolder ==
    \/ NextPool
    \/ \E m \in Markers : UploadReturn(m)
    \/ \E m \in Markers : TaskStart(m)
    \/ \E m \in Markers \ {PoolItem} : TaskUpload(m)
    \/ \E m \in Markers : TaskRecord(m)
    \/ \E m \in Markers : TaskCommit(m)
    \/ RunPoolDone
    \/ RunSave
    \/ RunExit

SpecFolder == InitFolder /\ [][NextFolder]_vars

----------------------------------------------------------------------------
(* A Store from state.New, the calls made on it, and the file at its path *)

\* what the file at s.Path can hold before the first call: nothing, "not-json",
\* "{}", or a document with one token and version 0 (absent), 1 or 2
InitialContents ==
    {Absent, NotJSON, Bytes("json", 0, <<0>>, <<>>, FALSE)}
    \cup {Bytes("json", v, <<1>>, <<[key |-> "a.RDY", val |-> <<1>>]>>, TRUE) : v \in 0..2}

InitStore ==
    /\ cfg = [sink |-> FALSE, noState |-> FALSE, firestore |-> FALSE]
    /\ mexists = [m \in Markers |-> TRUE]
    /\ mtime = [m \in Markers |-> FirstTime]
    /\ folder = [m \in Markers |-> "dir"]
    /\ stateFile = NoStateFile
    /\ IdleRun
    /\ now = T0
    /\ lockFile = NoFile
    /\ lock0 = NoFile
    /\ IdleLock
    /\ IdlePool
    /\ IdleScan
    /\ sPath \in BOOLEAN
    /\ store = New
    /\ sfiles \in {[path |-> c, tmp |-> Absent] : c \in InitialContents}
    /\ spc = "idle"
    /\ sbuf = Absent
    /\ serr = "none"
    /\ sbefore = Absent
    /\ fresh = New
    /\ lerr = FALSE
    /\ sops = 0
    /\ lastOp = NoOp

NextStore ==
    \/ \E k \in Keys, v \in Tokens : StoreSet(k, v)
    \/ \E t \in Stamps : StoreSetLastRun(t)
    \/ SaveCall
    \/ SaveMkdir
    \/ SaveMarshal
    \/ SaveOpen
    \/ SaveWrite
    \/ SaveRename
    \/ SaveClear
    \/ Crash
    \/ FreshLoad

SpecStore == InitStore /\ [][NextStore]_vars

----------------------------------------------------------------------------
(* Scan on every tree, with every combination of options *)

InitScan ==
    /\ cfg = [sink |-> FALSE, noState |-> FALSE, firestore |-> FALSE]
    /\ mexists = [m \in Markers |-> TRUE]
    /\ mtime = [m \in Markers |-> FirstTime]
    /\ folder = [m \in Markers |-> "dir"]
    /\ stateFile = NoStateFile
    /\ IdleRun
    /\ now = T0
    /\ lockFile = NoFile
    /\ lock0 = NoFile
    /\ IdleLock
    /\ IdlePool
    /\ IdleStore
    /\ tree \in Trees
    /\ sopts \in [Recursive : BOOLEAN, FollowSymlinks : BOOLEAN]
    /\ scanRes = NoScan
    /\ scanPrev = NoScan
    /\ scans = 0
    /\ scanRaws = <<>>

NextScan == ScanCall

SpecScan == InitScan /\ [][NextScan]_vars

----------------------------------------------------------------------------
(* Properties of repeated invocations (Spec) *)

\* C1: in report mode with state enabled, a second run right after a run
\* that reported and saved, on a tree nobody changed, finds nothing eligible
\* and writes nothing.
C1_ReportTwiceNothing ==
    (/\ pc = "save"
     /\ ~cfg.sink
     /\ ~cfg.noState
     /\ prev.ran
     /\ prev.wrote
     /\ prev.saved
     /\ loadOk
     /\ events = prev.evStart)
    => (matchedFiles = <<>> /\ out = <<>>)

\* C2 as stated: in delivery mode with state enabled, a marker whose upload
\* (and metadata write, if configured) succeeded in the run before, and which
\* has not changed since, is not eligible in this run.
C2_SkipAfterDelivery_Original ==
    (/\ pc = "classify"
     /\ Classified
     /\ cfg.sink
     /\ ~cfg.noState)
    => \A m \in Markers :
          (/\ m \in prev.upl
           /\ cfg.firestore => m \in prev.rec
           /\ m \notin chgCommit)
          => m \notin EligibleSet

\* C2, amended: the same, provided the state Save of the run before and the
\* state Load of this run succeeded.
C2_SkipAfterDelivery ==
    (/\ pc = "classify"
     /\ Classified
     /\ cfg.sink
     /\ ~cfg.noState
     /\ prev.saved
     /\ loadOk)
    => \A m \in Markers :
          (/\ m \in prev.upl
           /\ cfg.firestore => m \in prev.rec
           /\ m \notin chgCommit)
          => m \notin EligibleSet

C2_Witness ==
    /\ pc = "classify"
    /\ Classified
    /\ cfg.sink
    /\ cfg.firestore
    /\ ~cfg.noState
    /\ prev.saved
    /\ loadOk
    /\ \E i \in 1..Len(matches) :
          LET m == matches[i].readyFile IN
          /\ m \in prev.upl
          /\ m \in prev.rec
          /\ m \notin chgCommit
          /\ m \notin EligibleSet

\* C3: with state enabled and loaded, when every existing marker that has a
\* folder has a stored token and exactly one of these tokens differs from the
\* marker's current modification time, the run's eligible set is exactly
\* that one marker.
C3_OnlyChangedMarkerEligible ==
    LET tracked == {m \in Markers : mexists[m] /\ folder[m] = "dir"}
        differs == {m \in tracked \cap DOMAIN stateFile.files :
                       stateFile.files[m] # mtime[m]}
    IN  (/\ pc = "classify"
         /\ Classified
         /\ ~cfg.noState
         /\ loadOk
         /\ stateFile.exists
         /\ events = evStart
         /\ tracked \subseteq DOMAIN stateFile.files
         /\ Cardinality(differs) = 1)
        => EligibleSet = differs

C3_Witness ==
    /\ pc = "classify"
    /\ Classified
    /\ ~cfg.noState
    /\ loadOk
    /\ stateFile.exists
    /\ events = evStart
    /\ \A m \in Markers : mexists[m] /\ folder[m] = "dir" /\ m \in DOMAIN stateFile.files
    /\ stateFile.files[1] # mtime[1]
    /\ stateFile.files[2] = mtime[2]
    /\ EligibleSet = {1}

C5_FailedItemRetried_Original ==
    /\ \A m \in Markers :
          (task[m].upl = "fail" \/ task[m].rec = "fail") => m \notin setCalled
    /\ (/\ pc = "classify"
        /\ Classified
        /\ events = prev.evStart)
       => prev.fail \subseteq EligibleSet

\* C5, amended: the same, provided the failing run loaded the state file or
\* its state Save replaced it.
C5_FailedItemRetried ==
    /\ \A m \in Markers :
          (task[m].upl = "fail" \/ task[m].rec = "fail") => m \notin setCalled
    /\ (/\ pc = "classify"
        /\ Classified
        /\ events = prev.evStart
        /\ prev.loaded \/ prev.saved)
       => prev.fail \subseteq EligibleSet

C5_Witness ==
    /\ pc = "classify"
    /\ Classified
    /\ ~cfg.noState
    /\ events = prev.evStart
    /\ prev.loaded
    /\ prev.saved
    /\ loadOk
    /\ prev.fail # {}
    /\ prev.upl # {}
    /\ prev.fail \subseteq EligibleSet
    /\ prev.upl \cap EligibleSet = {}

C7_EndToEndFirstRun ==
    (/\ ~cfg.sink
     /\ ~cfg.noState
     /\ folder = (1 :> "dir" @@ 2 :> "missing")
     /\ mexists = (1 :> TRUE @@ 2 :> TRUE)
     /\ runNo = 1
     /\ events = 0
     /\ pc = "save")
    => out = << << [readyFile |-> 1, folder |-> 1, missingFolder |-> FALSE,
                    folderEntries |-> <<1, 2>>],
                   [readyFile |-> 2, folder |-> NoFolder, missingFolder |-> TRUE,
                    folderEntries |-> <<>>] >> >>

\* C12: a run that does not get the lock (held by another process and not
\* stale) returns nil without loading state, scanning, writing output,
\* building tasks or writing the state file, and its deferred release()
\* leaves the holder's lock file as it is.
C12_NotAcquiredNoAction ==
    [][((pc = "idle" /\ pc' = "exit") \/ (pc = "exit" /\ ~owned[Runner]))
       => /\ lockFile.exists
          /\ lockFile.owner = Stranger
          /\ ~IsStale(lockFile, now')
          /\ lockFile' = lockFile
          /\ stateFile' = stateFile
          /\ st' = NoStore
          /\ matches' = <<>>
          /\ matchedFiles' = <<>>
          /\ out' = <<>>
          /\ task' = [m \in Markers |-> NoTask]
          /\ setCalled' = {}
          /\ ~saved'
          /\ result' = "nil"]_vars

C12_Witness ==
    /\ pc = "exit"
    /\ ~owned[Runner]
    /\ result = "nil"
    /\ lockFile.exists
    /\ lockFile.owner = Stranger
    /\ stateFile.exists
    /\ st = NoStore
    /\ out = <<>>

\* C13: a run that acquired the lock still has its lock file when it reaches
\* its return, on every exit path, and the deferred release() removes it; so
\* between runs the path holds no file of the runner, and a run that starts
\* while no other process holds the path acquires the lock at once.
C13_LockRemovedAtExit ==
    /\ [](pc = "idle" => ~(lockFile.exists /\ lockFile.owner = Runner))
    /\ [][/\ (pc = "exit" /\ owned[Runner])
             => /\ lockFile = NewLockFile(now, Runner)
                /\ ~lockFile'.exists
          /\ (pc = "idle" /\ pc' # "idle" /\ ~(lockFile.exists /\ lockFile.owner = Stranger))
             => /\ pc' = "load"
                /\ lockFile' = NewLockFile(now', Runner)]_vars

C13_Witness ==
    /\ pc = "load"
    /\ runNo = 2
    /\ result = "running"
    /\ owned[Runner]
    /\ lockFile = NewLockFile(now, Runner)
    /\ prev.ran
    /\ cfg.sink
    /\ ~cfg.noState
    /\ ~stateFile.exists

----------------------------------------------------------------------------
(* Properties of the lock race (SpecLock) *)

\* C8: when the lock path is free at the start, every process has returned
\* from its attempt, nobody has released and all attempts fell within one
\* ttl, exactly one process got acquired = true and all the others
\* acquired = false.
C8_ExactlyOneAcquires ==
    (/\ ~lock0.exists
     /\ \A p \in LockProcs : lpc[p] \in {"acquired", "busy"} /\ relCalls[p] = 0
     /\ now - T0 <= Ttl)
    => /\ Cardinality({p \in LockProcs : lpc[p] = "acquired"}) = 1
       /\ \A p \in LockProcs : owned[p] <=> lpc[p] = "acquired"

C8_Witness ==
    /\ ~lock0.exists
    /\ \A p \in LockProcs : lpc[p] \in {"acquired", "busy"} /\ relCalls[p] = 0
    /\ now - T0 <= Ttl
    /\ Cardinality({p \in LockProcs : lpc[p] = "busy"}) = NumProcs - 1

\* C9: when the lock path holds a stale file at the start and nobody has
\* released, at most one process holds the lock (acquired = true) at any
\* time within one ttl of the start.
C9_StaleReclaimExclusive ==
    (/\ lock0.exists
     /\ IsStale(lock0, T0)
     /\ \A p \in LockProcs : relCalls[p] = 0
     /\ now - T0 <= Ttl)
    => Cardinality({p \in LockProcs : lpc[p] = "acquired"}) <= 1

\* C10: a process that made its attempt alone, without the clock moving: on
\* a file older than ttl it removed the file, opened exactly twice and holds
\* the lock on a file of its own; on a file of age at most ttl it opened
\* once, got acquired = false and the file is the one that was there.
C10_LoneAttempt ==
    \A p \in LockProcs :
        (/\ lock0.exists
         /\ now = T0
         /\ lpc[p] \in {"acquired", "busy"}
         /\ relCalls[p] = 0
         /\ \A q \in LockProcs \ {p} : lpc[q] = "call")
        => IF T0 - lock0.mod > Ttl
              THEN /\ lpc[p] = "acquired"
                   /\ owned[p]
                   /\ opens[p] = 2
                   /\ lockFile = NewLockFile(now, p)
              ELSE /\ lpc[p] = "busy"
                   /\ ~owned[p]
                   /\ opens[p] = 1
                   /\ lockFile = lock0

C10_Witness ==
    \E p \in LockProcs :
        /\ lock0.exists
        /\ T0 - lock0.mod > Ttl
        /\ now = T0
        /\ lpc[p] = "acquired"
        /\ opens[p] = 2
        /\ lockFile = NewLockFile(now, p)
        /\ \A q \in LockProcs \ {p} : lpc[q] = "call"

\* C11: a release() call of a process leaves the lock file in place when the
\* file at the path is not the one that process created (its own lock was
\* reclaimed as stale and the path now holds a later process's file).
C11_ReleaseOnlyOwnFile ==
    [][\A p \in LockProcs :
          (/\ relCalls'[p] = relCalls[p] + 1
           /\ lockFile.exists
           /\ lockFile.owner # p)
          => lockFile' = lockFile]_vars

----------------------------------------------------------------------------
(* Properties of RunParallel (SpecPool, SpecPoolFair) *)

\* C14: when every task returns nil, for any concurrency argument (<= 0 for
\* auto, or >= 1, also above len(tasks)), RunParallel comes to return, it
\* returns nil and every task has run to its end.
C14_AllTasksComplete ==
    (\A t \in PoolTaskIds : ~pfails[t])
    => <>(/\ fpc = "done"
          /\ ret = Returned(NilErr)
          /\ \A t \in PoolTaskIds : t <= ptasks => tstate[t] = "ok")

C14_Witness ==
    /\ fpc = "done"
    /\ ret = Returned(NilErr)
    /\ ptasks = MaxPoolTasks
    /\ preq = 0
    /\ pcpu = 1
    /\ \A t \in PoolTaskIds : ~pfails[t] /\ tstate[t] = "ok"

\* C15: when tasks return errors, RunParallel returns, and what it returns is
\* the first error recorded in errCh, which is the error of a task that
\* failed (of the one failing task when there is exactly one); the calling
\* goroutine is never left waiting with no worker to receive.
C15_FirstErrorReturned ==
    LET failing == {t \in PoolTaskIds : pfails[t]} IN
    failing # {} =>
        /\ ~PoolStuck
        /\ fpc = "done" =>
              /\ ret.returned
              /\ ret.err \in failing
              /\ errCh # <<>>
              /\ ret.err = errCh[1]
              /\ tstate[ret.err] = "fail"

InFlightTasks == {t \in PoolTaskIds : tstate[t] = "running"}

\* C17: at every moment of a RunParallel execution the number of tasks in
\* flight is at most min(concurrency, len(tasks)), where a concurrency <= 0
\* is first replaced by a value in [2, 8].
C17_InFlightBounded ==
    LET auto == Max(Min(pcpu, 8), 2)
        c    == IF preq <= 0 THEN auto ELSE preq
    IN  /\ auto \in 2..8
        /\ Cardinality(InFlightTasks) <= Min(c, ptasks)
        /\ Cardinality({w \in PoolTaskIds : wpc[w] # "none"}) <= Min(c, ptasks)

C17_Witness ==
    /\ preq <= 0
    /\ pcpu = 1
    /\ ptasks = MaxPoolTasks
    /\ Cardinality(InFlightTasks) = 2
    /\ fpc = "send"

----------------------------------------------------------------------------
(* Properties of a folder task with its inner pool *)

\* C18: in delivery mode a delivery or metadata failure of one eligible item
\* stays inside that item's task: the item's inner file pool, once a file
\* failed, still returns to the task (which logs and returns nil), the
\* outer scheduler receives no error, the other item's task is not touched
\* by the cancellation, and run returns nil.
C18_FailureIsolated ==
    /\ (\E t \in PoolTaskIds : tstate[t] = "fail") =>
          /\ ~PoolStuck
          /\ task[PoolItem].upl = "fail" => task[PoolItem].pc = "done"
    /\ \A m \in Markers \ {PoolItem} :
          task[m].upl = "ok" => task[m].pc \in {"record", "commit", "done"}
    /\ result \in {"running", "nil"}

----------------------------------------------------------------------------
(* Properties of the run: lastRun and the report *)

\* C19: with state enabled, every run that acquired the lock and completed
\* its scan has, when it returns nil, set lastRun to the run's time and
\* persisted the state (the state file then carries that lastRun, unless the
\* write of the file itself failed), in report mode and in delivery mode
\* alike, whether or not any item was eligible.
C19_LastRunEveryRun ==
    (pc = "exit" /\ ~cfg.noState /\ idx >= 1 /\ result = "nil")
    => /\ st.LastRun = now
       /\ ~st.dirty => (stateFile.exists /\ stateFile.lastRun = now)

\* the array lists entries of the scan result, in the order of the scan
InScanOrder(arr, scanned) ==
    /\ \A i \in 1..Len(arr) : \E j \in 1..Len(scanned) : scanned[j] = arr[i]
    /\ \A i1, i2 \in 1..Len(arr) : \A j1, j2 \in 1..Len(scanned) :
          (i1 < i2 /\ scanned[j1] = arr[i1] /\ scanned[j2] = arr[i2]) => j1 < j2

\* C20: in report mode a run writes to the output at most once: once the
\* report step is done the output holds exactly one array with the eligible
\* items in scan order when at least one item is eligible, and nothing at
\* all (not even an empty array) when none is.
C20_ReportWritesOnce ==
    ~cfg.sink =>
       /\ Len(out) <= 1
       /\ \A k \in 1..Len(out) : out[k] # <<>> /\ InScanOrder(out[k], matches)
       /\ (pc \in {"save", "exit"} /\ Classified /\ result # "error") =>
             /\ Len(matchedFiles) > 0 => out = <<matchedFiles>>
             /\ Len(matchedFiles) = 0 => out = <<>>

C20_Witness ==
    /\ ~cfg.sink
    /\ pc = "save"
    /\ Len(out) = 1
    /\ Len(out[1]) = Cardinality(Markers)
    /\ out[1][1].readyFile < out[1][2].readyFile

----------------------------------------------------------------------------
(* Properties of the run: the state file *)

\* C21: with state disabled, every scanned item that has a companion folder
\* is eligible on every run, whatever an existing state file holds, and the
\* run neither reads the state file (no store is opened) nor writes it.
C21_StateDisabled ==
    /\ [](cfg.noState =>
            /\ st.nil
            /\ Classified =>
                 matchedFiles = SelectSeq(matches, LAMBDA mt : ~mt.missingFolder))
    /\ [][cfg.noState => stateFile' = stateFile]_vars

C21_Witness ==
    /\ cfg.noState
    /\ stateFile = PriorStateFile
    /\ runNo = 2
    /\ pc = "save"
    /\ events = 0
    /\ Len(matchedFiles) = Cardinality(Markers)

\* C22: failures of state Load or Save never make run return an error: after
\* a failed Load the run goes on with an empty store and every scanned item
\* with a folder is eligible; after a failed Save the run still returns nil
\* and the state file is left as it was, so only that run's updates are lost.
C22_StateFailuresAreWarnings ==
    /\ []((~cfg.noState /\ ~loadOk) =>
            /\ pc = "scan" => (st = New /\ result = "running")
            /\ Classified =>
                 matchedFiles = SelectSeq(matches, LAMBDA mt : ~mt.missingFolder))
    /\ [][(pc = "save" /\ pc' # "save") =>
             /\ pc' = "exit"
             /\ result' = "nil"
             /\ (~st'.nil /\ st'.dirty) => stateFile' = stateFile]_vars

C22_Witness ==
    /\ pc = "exit"
    /\ result = "nil"
    /\ ~loadOk
    /\ ~st.nil
    /\ st.dirty
    /\ st.Data # EmptyMap
    /\ stateFile.exists
    /\ stateFile.lastRun < now

----------------------------------------------------------------------------
(* Properties of the run: the metadata client *)

\* C23: when a metadata collection is configured but the Firestore client
\* fails to initialise, the run delivers the eligible folders without
\* writing metadata records and returns normally, without crashing.
C23_FirestoreInitFailure ==
    /\ fsOn = "nil" =>
          \A m \in Markers : task[m].pc # "record" /\ task[m].rec = "none"
    /\ result # "panic"

----------------------------------------------------------------------------
(* Properties of the run: the committed token *)

\* C30: the token committed for a delivered item is the marker modification
\* time observed when the item was classified eligible (so that a marker
\* touched while its folder is being delivered is eligible again on the next
\* run).
C30_TokenFromClassification ==
    (pc = "pool" /\ ~st.nil) =>
        \A m \in setCalled : m \in DOMAIN st.Data /\ st.Data[m] = seenMod[m]

----------------------------------------------------------------------------
(* Properties of RunParallel: termination *)

\* C29: RunParallel always returns, for every concurrency >= 1, every number
\* of tasks and every set of failing tasks: as long as it has not returned,
\* the calling goroutine or one of the workers can take a step (every task
\* returns, so a running task is a step that can be taken).
C29_NeverDeadlocks ==
    preq >= 1 => (ret.returned \/ ENABLED NextPool)

----------------------------------------------------------------------------
(* Properties of the Store *)

\* C24: Store.Set(key, token) changes the stored value and marks the store
\* dirty only if the key was absent or held a different value; a Set with
\* the value already stored leaves the map and the dirty flag unchanged;
\* SetLastRun always marks the store dirty.
C24_SetDirtyOnlyOnChange ==
    [][/\ \A k \in Keys, v \in Tokens :
            StoreSet(k, v) =>
               IF k \in DOMAIN store.Data /\ store.Data[k] = v
               THEN store'.Data = store.Data /\ store'.dirty = store.dirty
               ELSE /\ store'.dirty
                    /\ DOMAIN store'.Data = (DOMAIN store.Data) \cup {k}
                    /\ store'.Data[k] = v
                    /\ \A j \in (DOMAIN store.Data) \ {k} : store'.Data[j] = store.Data[j]
       /\ \A t \in Stamps :
            StoreSetLastRun(t) =>
               store'.dirty /\ store'.LastRun = t /\ store'.Data = store.Data]_vars

C24_Witness ==
    /\ lastOp.op = "Set"
    /\ ~store.dirty
    /\ sops = 2
    /\ lastOp.key \in DOMAIN store.Data
    /\ store.Data[lastOp.key] = lastOp.val

\* C25: if the process crashes at any point during Store.Save, the file at
\* the state path holds either the complete document it held before or the
\* complete new document, never a partial one; Save on a clean store or on a
\* store with no path touches no file.
C25_SaveAtomic ==
    /\ [](/\ sfiles.path.kind # "partial"
          /\ spc # "idle" => sfiles.path \in {sbefore, Marshal(DiskStateOf(store))})
    /\ [][(SaveCall /\ (~sPath \/ ~store.dirty)) =>
             (sfiles' = sfiles /\ spc' = "idle" /\ serr' = "nil")]_vars

C25_Witness ==
    /\ spc = "crashed"
    /\ sfiles.tmp.kind = "partial"
    /\ sbefore.kind = "json"
    /\ sfiles.path = sbefore
    /\ sbefore # Marshal(DiskStateOf(store))

\* C26: Store.Load on an absent backing file or on unparseable content
\* returns no error and leaves the store empty.
C26_LoadTolerant ==
    [][(FreshLoadWith(TRUE) /\ sPath /\ sfiles.path.kind \in {"absent", "not-json", "partial"})
          => (~lerr' /\ fresh' = New)]_vars

C26_Witness ==
    /\ lastOp.op = "Load"
    /\ sPath
    /\ sfiles.path.kind = "not-json"
    /\ ~lerr
    /\ fresh = New

\* C27: when the state file parses but carries an unknown or absent schema
\* version, Load treats it as no prior state: no token from that file is
\* loaded, and no error is returned.
C27_UnknownVersionIgnored ==
    [][(FreshLoadWith(TRUE) /\ sPath /\ sfiles.path.kind = "json" /\ sfiles.path.version # 1)
          => (~lerr' /\ fresh'.Data = EmptyMap)]_vars

\* C28: round trip: after any sequence of Set and SetLastRun calls followed
\* by a successful Save, Load into a fresh Store on the same path yields
\* exactly the same key-to-token map and the same lastRun.
C28_RoundTrip ==
    [][(/\ FreshLoadWith(TRUE)
        /\ sPath
        /\ spc = "idle"
        /\ sops > 0
        /\ serr = "nil"
        /\ ~store.dirty)
          => (~lerr' /\ fresh'.Data = store.Data /\ fresh'.LastRun = store.LastRun)]_vars

----------------------------------------------------------------------------
(* Properties of RunParallel under a cancellable parent context (SpecPoolCtx) *)

C37_AtMostOnce ==
    /\ [][\A t \in PoolTaskIds :
             (tstate[t] # "running" /\ tstate'[t] = "running") => tstate[t] = "new"]_vars
    /\ [][\A t \in PoolTaskIds : tstate[t] # "new" => tstate'[t] # "new"]_vars
    /\ [](\A v, w \in PoolTaskIds :
             (v # w /\ wjob[v] # 0 /\ wjob[w] # 0) => wjob[v] # wjob[w])
    /\ [][feedIdx' >= feedIdx]_vars
    /\ [](\A t \in PoolTaskIds : t > ptasks => tstate[t] = "new")

C37_Witness ==
    /\ fpc = "done"
    /\ ptasks = MaxPoolTasks
    /\ Cardinality(Workers) >= 2
    /\ \E t \in PoolTaskIds : tstate[t] = "fail"
    /\ \E t \in PoolTaskIds : tstate[t] = "ok"
    /\ \A t \in PoolTaskIds : tstate[t] # "new"

\* C38: when RunParallel has returned and some task it called returned an
\* error, the value returned is non-nil; and when it has returned nil and the
\* parent context was never cancelled, every task of the slice was called
\* and returned nil.
C38_ErrorNeverLost ==
    ret.returned =>
        /\ (\E t \in PoolTaskIds : tstate[t] = "fail") => ret.err # NilErr
        /\ (ret.err = NilErr /\ ~parentDone) =>
               \A t \in PoolTaskIds : t <= ptasks => tstate[t] = "ok"

C38_Witness ==
    /\ ret.returned
    /\ ret.err # NilErr
    /\ Cardinality({t \in PoolTaskIds : tstate[t] = "fail"}) >= 2
    /\ parentDone

----------------------------------------------------------------------------
(* Properties of scanner.Scan (SpecScan) *)

\* the marker paths of the items a Scan returned
ReadyFilesOf(res) == {res.matches[i].ReadyFile : i \in 1..Len(res.matches)}

\* C33: Scan returns its items in strictly ascending order of marker path and
\* each item's child entries in strictly ascending order of name, and a
\* second Scan of the same tree returns the same value as the first,
\* whatever order the file system enumerated the names in for either.
C33_ScanSorted ==
    /\ (scans >= 1 /\ ~scanRes.err) =>
          LET m == scanRes.matches IN
          /\ \A i \in 1..(Len(m) - 1) : StrLess(m[i].ReadyFile, m[i + 1].ReadyFile)
          /\ \A i \in 1..Len(m) :
                \A j \in 1..(Len(m[i].FolderEntries) - 1) :
                   StrLess(m[i].FolderEntries[j].Name, m[i].FolderEntries[j + 1].Name)
    /\ scans >= 2 => scanRes = scanPrev

\* two recursive scans under different enumeration orders; the walk meets
\* r/A/C.rdy before r/A.RDY, which sorts first, and A holds several entries
C33_Witness ==
    /\ scans = 2
    /\ scanRaws[1] # scanRaws[2]
    /\ sopts.Recursive
    /\ Len(scanRes.matches) = 2
    /\ scanRes.matches[1].ReadyFile = Join(Root, MarkerA)
    /\ Len(scanRes.matches[1].FolderEntries) >= 3

\* C34: when every directory that cannot be listed is the candidate folder
\* of a marker, Scan does not fail, returns one item for every marker it is
\* to discover (those in root, and in recursive mode also those below
\* directories it walks), no two items with the same marker path, and an
\* item has missingFolder set exactly when its candidate folder is missing,
\* is no directory or cannot be listed.
C34_OneItemPerMarker ==
    LET pathC   == Join(PathA, NameC)
        markA   == Join(Root, MarkerA)
        markC   == Join(PathA, MarkerC)
        m       == scanRes.matches
        walked  == sopts.Recursive /\ tree[PathA] = "dir"
        markers == {p \in {markA} : tree[p] = "file"}
                   \cup {p \in {markC} : tree[p] = "file" /\ walked}
        cand(p) == IF p = markA THEN PathA ELSE pathC
    IN  (/\ scans >= 1
         /\ tree[PathA] = "nolist" => tree[markA] = "file"
         /\ tree[pathC] = "nolist" => tree[markC] = "file")
        => /\ ~scanRes.err
           /\ ReadyFilesOf(scanRes) = markers
           /\ Len(m) = Cardinality(markers)
           /\ \A i \in 1..Len(m) :
                 m[i].MissingFolder = (Stat(tree, cand(m[i].ReadyFile)) # "dir")

\* C35: in a recursive scan of a tree where A is a symbolic link to a
\* directory that holds a marker, the marker below A is among the items
\* exactly when FollowSymlinks is set.
C35_SymlinkTraversal ==
    (/\ scans >= 1
     /\ sopts.Recursive
     /\ tree[PathA] = "link"
     /\ tree[Join(PathA, MarkerC)] = "file")
    => /\ ~scanRes.err
       /\ (Join(PathA, MarkerC) \in ReadyFilesOf(scanRes)) = sopts.FollowSymlinks

----------------------------------------------------------------------------
(* Properties of the run: Save and the tokens (Spec) *)

\* C32: in a delivery run with state enabled, Save starts only when every
\* folder task has returned; once it has started the run only exits, so no
\* Set comes with or after it and it is not called twice; the map changes
\* during the pool only by one task's Set of its own marker, leaving the
\* other keys as they were; and when the run, its scan completed, returns
\* nil, Save has been called (st.LastRun, set right before the call, is the
\* run's time).
C32_SaveAfterAllSets ==
    /\ [](pc = "save" => \A m \in Markers : task[m].pc \in {"none", "done"})
    /\ [][pc = "save" => pc' \in {"save", "exit"}]_vars
    /\ [][pc = "exit" => pc' \in {"exit", "idle"}]_vars
    /\ [][st'.Data # st.Data => pc \in {"load", "pool", "exit"}]_vars
    /\ [][(pc = "pool" /\ st'.Data # st.Data) =>
             \E m \in Markers :
                /\ task[m].pc = "commit"
                /\ task'[m].pc = "done"
                /\ st'.Data = MapPut(st.Data, m, CommitToken(m))]_vars
    /\ [][(pc = "exit" /\ pc' = "idle" /\ cfg.sink /\ ~st.nil /\ idx >= 1 /\ result = "nil")
             => st.LastRun = now]_vars

\* the token the state file holds for a marker, 0 when it holds none
TokenIn(file, m) == IF m \in DOMAIN file.files THEN file.files[m] ELSE 0

\* the marker's item was delivered in this run: its upload succeeded, and
\* its metadata record too when a metadata client is in use
Delivered(m) ==
    /\ task[m].pc = "done"
    /\ task[m].upl = "ok"
    /\ fsOn = "ok" => task[m].rec = "ok"

\* C36: whenever a run rewrites the state file, the token of a marker differs
\* from the one the file held before only if the marker's item was delivered
\* in that run, and every marker that had an entry still has one; within
\* the run the store's map changes only by the Set of a delivered item.
C36_TokensOnlyOnDelivery ==
    /\ [][stateFile' # stateFile =>
             /\ \A m \in Markers :
                   TokenIn(stateFile', m) # TokenIn(stateFile, m) => Delivered(m)
             /\ DOMAIN stateFile.files \subseteq DOMAIN stateFile'.files]_vars
    /\ [][(pc = "pool" /\ st'.Data # st.Data) =>
             /\ DOMAIN st.Data \subseteq DOMAIN st'.Data
             /\ \A m \in DOMAIN st'.Data :
                   (m \notin DOMAIN st.Data \/ st'.Data[m] # st.Data[m])
                   => (task[m].upl = "ok" /\ task'[m].pc = "done"
                       /\ (fsOn = "ok" => task[m].rec = "ok"))]_vars

====
